---- MODULE Spec2Model ----
(***************************************************************************)
(* Model of the Fitsee dashboard (Remix loaders over a Prisma store).      *)
(*                                                                         *)
(* Time is counted in whole hours since 2024-01-01T00:00:00Z (a JS Date    *)
(* counts milliseconds since 1970; the origin and the unit are rescaled,   *)
(* the arithmetic is the same).  An ISO calendar date "YYYY-MM-DD" is      *)
(* represented by its day number since 2024-01-01.                         *)
(* Money is counted exactly: a price is a whole number of cents and a net  *)
(* amount is a whole number of 1/1000 cent (Scale).  Where the rounding of *)
(* JavaScript numbers matters (SpecDoubles), the same reducers are carried *)
(* out in IEEE-754 binary64.                                               *)
(***************************************************************************)
EXTENDS Integers, Sequences, FiniteSets, TLC

VARIABLES
  shopTable,        \* Shop rows, in storage order
  generationTable,  \* Generation rows
  billingTable,     \* BillingLog rows
  logTable,         \* Log rows
  now,              \* the instant `new Date()` returns for the request
  tz,               \* time zone of the server process
  request,          \* route and URL parameters of the request
  pc,               \* "request" -> "loaded" -> "rendered" (or "mounted")
  queries,          \* store queries issued by the request, in order
  response,         \* what the loader returned or threw
  view,             \* what the route component computed from the response;
                    \* on the generations page: what it reads and its state
  failAt,           \* which store query of the request fails (0: none)
  served,           \* how many requests have arrived so far
  calls             \* loader invocations in flight at the same time

vars ==
  <<shopTable, generationTable, billingTable, logTable, now, tz, request, pc,
    queries, response, view, failAt, served, calls>>

store == <<shopTable, generationTable, billingTable, logTable>>

-----------------------------------------------------------------------------
(* Bounds of the model *)

MaxShops == 2
MaxGenerations == 3
MaxBillingLogs == 3
MaxProbes == 1

-----------------------------------------------------------------------------
(* JavaScript values *)

\* null, as returned by URLSearchParams.get for an absent parameter
NULL == "<null>"

\* JS truthiness of a string-or-null value: null and "" are falsy
Truthy(s) == s # NULL /\ s # ""

\* a || b on string-or-null values
OrElse(a, b) == IF Truthy(a) THEN a ELSE b

\* length of a day: 24 * 60 * 60 * 1000 ms, here in hours
DayLen == 24

\* a Date object holding a time value, and the Invalid Date (time value NaN)
DateObj(t) == [kind |-> "date", time |-> t]
InvalidDate == [kind |-> "invalid", time |-> 0]

\* the date-only strings the model's requests use, and their UTC day number
DateStrings == {"2024-01-01", "2024-01-15", "2024-01-31", "2024-02-01"}

DayNumber(s) ==
  CASE s = "2024-01-01" -> 0
    [] s = "2024-01-15" -> 14
    [] s = "2024-01-31" -> 30
    [] s = "2024-02-01" -> 31

\* new Date(string): a date-only ISO string is midnight UTC of that date;
\* a string that is no date gives the Invalid Date
NewDate(s) ==
  IF s \in DateStrings THEN DateObj(DayNumber(s) * DayLen) ELSE InvalidDate

-----------------------------------------------------------------------------
(* Local time of the server process *)

\* A time zone: standard offset from UTC, and the UTC interval [dstFrom, dstTo)
\* during which the clocks are one hour ahead of standard time.
UTC == [std |-> 0, dstFrom |-> 0, dstTo |-> 0]
NewYork == [std |-> -5, dstFrom |-> 1663, dstTo |-> 7374]  \* 2024-03-10 .. 2024-11-03
Berlin == [std |-> 1, dstFrom |-> 2161, dstTo |-> 7201]    \* 2024-03-31 .. 2024-10-27
Zones == {UTC, NewYork, Berlin}

Offset(z, t) == z.std + (IF z.dstFrom <= t /\ t < z.dstTo THEN 1 ELSE 0)

\* midnight UTC of the local day of t, as Date.UTC(year, month, date) gives
UtcMidnightOfLocalDay(z, t) == ((t + Offset(z, t)) \div DayLen) * DayLen

\* (getFullYear(), getMonth(), getDate()) of the instant t: its local day
LocalDay(z, t) == (t + Offset(z, t)) \div DayLen

\* new Date(year, month, date): the instant of local midnight of a local day
LocalMidnight(z, d) ==
  LET dst == d * DayLen - (z.std + 1)
  IN  IF Offset(z, dst) = z.std + 1 THEN dst ELSE d * DayLen - z.std

Today(z, t) == LocalMidnight(z, LocalDay(z, t))

\* midnight of the local day seven calendar days before today
SevenDaysAgoByCalendar(z, t) == LocalMidnight(z, LocalDay(z, t) - 7)

SevenDaysAgo(z, t) == Today(z, t) - 7 * DayLen
ThirtyDaysAgo(z, t) == Today(z, t) - 30 * DayLen

\* the calendar date of t on the clock of the server instead of UTC
LocalIsoDate(t) == (t + Offset(tz, t)) \div DayLen

\* Date.prototype.toISOString().slice(0, 10): the UTC calendar date
IsoDate(t) == t \div DayLen

-----------------------------------------------------------------------------
(* Prisma `where` conditions on a DateTime column *)

Unset == [kind |-> "unset", time |-> 0]

\* {} : no constraint
NoCondition == [gte |-> Unset, lte |-> Unset]

\* the client rejects a query whose argument is an Invalid Date
ValidCondition(c) == c.gte.kind # "invalid" /\ c.lte.kind # "invalid"

\* does the DateTime value t satisfy the condition
Admits(c, t) ==
  /\ (c.gte.kind = "date" => t >= c.gte.time)
  /\ (c.lte.kind = "date" => t <= c.lte.time)

-----------------------------------------------------------------------------
(* Sequences *)

SeqsUpTo(S, n) == UNION {[1..k -> S] : k \in 0..n}

Take(s, n) == SubSeq(s, 1, IF Len(s) < n THEN Len(s) ELSE n)

Drop(s, n) == SubSeq(s, (IF n < Len(s) THEN n ELSE Len(s)) + 1, Len(s))

RECURSIVE SumSeq(_)
SumSeq(s) == IF s = <<>> THEN 0 ELSE Head(s) + SumSeq(Tail(s))

\* The orders in which the store may return rows under `orderBy: desc` on a
\* key: every arrangement of the indices S with non-increasing keys (rows with
\* equal keys come in any order).
RECURSIVE DescOrders(_, _)
DescOrders(keys, S) ==
  IF S = {} THEN {<<>>}
  ELSE UNION {{<<i>> \o p : p \in DescOrders(keys, S \ {i})} :
                i \in {j \in S : \A k \in S : keys[j] >= keys[k]}}

\* the orders in which rows may come back without an orderBy: any arrangement
RECURSIVE AnyOrders(_, _)
AnyOrders(keys, S) ==
  IF S = {} THEN {<<>>}
  ELSE UNION {{<<i>> \o p : p \in AnyOrders(keys, S \ {i})} : i \in S}

\* the same for `orderBy: asc`
RECURSIVE AscOrders(_, _)
AscOrders(keys, S) ==
  IF S = {} THEN {<<>>}
  ELSE UNION {{<<i>> \o p : p \in AscOrders(keys, S \ {i})} :
                i \in {j \in S : \A k \in S : keys[j] <= keys[k]}}

Arrange(rows, order) == [i \in 1..Len(order) |-> rows[order[i]]]

CreatedAtKeys(rows) == [i \in 1..Len(rows) |-> rows[i].createdAt]
TimestampKeys(rows) == [i \in 1..Len(rows) |-> rows[i].timestamp]

-----------------------------------------------------------------------------
(* Date-range resolvers *)

\* GenerationsDateCondition applying whichever end of a custom range is given
GenerationsDateConditionPartial(req, z, t) ==
  LET dateFilter == OrElse(req.dateFilter, "30days")
      customStart == req.start
      customEnd == req.end
  IN  IF dateFilter = "custom" /\ (Truthy(customStart) \/ Truthy(customEnd))
      THEN [gte |-> IF Truthy(customStart) THEN NewDate(customStart) ELSE Unset,
            lte |-> IF Truthy(customEnd) THEN NewDate(customEnd) ELSE Unset]
      ELSE CASE dateFilter = "today" -> [gte |-> DateObj(Today(z, t)), lte |-> Unset]
             [] dateFilter = "7days" -> [gte |-> DateObj(SevenDaysAgo(z, t)), lte |-> Unset]
             [] dateFilter = "30days" -> [gte |-> DateObj(ThirtyDaysAgo(z, t)), lte |-> Unset]
             [] OTHER -> NoCondition

\* generations.tsx: dateFilter, customStart, customEnd -> dateCondition
GenerationsDateFilter(req) == OrElse(req.dateFilter, "30days")

GenerationsDateCondition(req, z, t) ==
  LET dateFilter == GenerationsDateFilter(req)
      customStart == req.start
      customEnd == req.end
  IN  IF dateFilter = "custom" /\ Truthy(customStart) /\ Truthy(customEnd)
      THEN [gte |-> NewDate(customStart), lte |-> NewDate(customEnd)]
      ELSE CASE dateFilter = "today" -> [gte |-> DateObj(Today(z, t)), lte |-> Unset]
             [] dateFilter = "7days" -> [gte |-> DateObj(SevenDaysAgo(z, t)), lte |-> Unset]
             [] dateFilter = "30days" -> [gte |-> DateObj(ThirtyDaysAgo(z, t)), lte |-> Unset]
             [] OTHER -> NoCondition

\* _index.tsx: dateFilter -> dateFilterCondition
IndexDateFilter(req) == OrElse(req.dateFilter, "all")

\* IndexDateCondition bounding the unfiltered case by the current time
IndexDateConditionUpToNow(req, z, t) ==
  LET dateFilter == IndexDateFilter(req)
  IN  CASE dateFilter = "today" -> [gte |-> DateObj(Today(z, t)), lte |-> Unset]
        [] dateFilter = "7days" -> [gte |-> DateObj(SevenDaysAgo(z, t)), lte |-> Unset]
        [] dateFilter = "30days" -> [gte |-> DateObj(ThirtyDaysAgo(z, t)), lte |-> Unset]
        [] OTHER -> [gte |-> Unset, lte |-> DateObj(t)]

IndexDateCondition(req, z, t) ==
  LET dateFilter == IndexDateFilter(req)
  IN  CASE dateFilter = "today" -> [gte |-> DateObj(Today(z, t)), lte |-> Unset]
        [] dateFilter = "7days" -> [gte |-> DateObj(SevenDaysAgo(z, t)), lte |-> Unset]
        [] dateFilter = "30days" -> [gte |-> DateObj(ThirtyDaysAgo(z, t)), lte |-> Unset]
        [] OTHER -> NoCondition

-----------------------------------------------------------------------------
(* Revenue reducers: net of the 2.9 % transaction fee *)

\* amounts are kept in 1/Scale of the price unit, so that 0.029 is FeeRate/Scale
Scale == 1000
FeeRate == 29

\* LogSum with the fee taken from the running sum instead of the record's price
RECURSIVE LogSumFeeOnSum(_, _)
LogSumFeeOnSum(logs, logSum) ==
  IF logs = <<>> THEN logSum
  ELSE LET log == Head(logs)
           transactionFee == (logSum \div Scale) * FeeRate
       IN  LogSumFeeOnSum(Tail(logs), logSum + (log.price * Scale - transactionFee))

\* _index.tsx loader: shop.BillingLog.reduce(...) inside shops.reduce(...)
RECURSIVE LogSum(_, _)
LogSum(logs, logSum) ==
  IF logs = <<>> THEN logSum
  ELSE LET log == Head(logs)
           transactionFee == log.price * FeeRate
       IN  LogSum(Tail(logs), logSum + (log.price * Scale - transactionFee))

RECURSIVE TotalRevenue(_, _)
TotalRevenue(shops, sum) ==
  IF shops = <<>> THEN sum
  ELSE TotalRevenue(Tail(shops), sum + LogSum(Head(shops).BillingLog, 0))

\* the row of a shop in the tables of _index.tsx and of the shops page
RECURSIVE ShopRevenueFrom(_, _)
ShopRevenueFrom(logs, sum) ==
  IF logs = <<>> THEN sum
  ELSE LET log == Head(logs)
           transactionFee == log.price * FeeRate
       IN  ShopRevenueFrom(Tail(logs), sum + (log.price * Scale - transactionFee))

ShopRevenue(shop) == ShopRevenueFrom(shop.BillingLog, 0)

\* shop.$shopId.tsx loader
RECURSIVE DetailRevenueFrom(_, _)
DetailRevenueFrom(logs, sum) ==
  IF logs = <<>> THEN sum
  ELSE LET log == Head(logs)
           transactionFee == log.price * FeeRate
       IN  DetailRevenueFrom(Tail(logs), sum + (log.price * Scale - transactionFee))

\* the revenue of the billing logs listed on the page only
DetailRevenueOfRecent(shop) == DetailRevenueFrom(Take(shop.BillingLog, 10), 0)

DetailRevenue(shop) == DetailRevenueFrom(shop.BillingLog, 0)

-----------------------------------------------------------------------------
(* IEEE-754 binary64 arithmetic, as JavaScript numbers and the Float column  *)
(* of BillingLog.price carry it out, on the non-negative amounts of money    *)
(* (a price and its net amount are not below zero)                           *)

\* a natural number of any size: its bits, the least significant first,
\* without leading zeros
RECURSIVE Bits(_)
Bits(n) == IF n = 0 THEN <<>> ELSE <<n % 2>> \o Bits(n \div 2)

RECURSIVE ValueOf(_)
ValueOf(b) == IF b = <<>> THEN 0 ELSE Head(b) + 2 * ValueOf(Tail(b))

Trim(b) ==
  LET ones == {i \in DOMAIN b : b[i] = 1}
  IN  IF ones = {} THEN <<>>
      ELSE SubSeq(b, 1, CHOOSE i \in ones : \A j \in ones : j <= i)

ShiftLeft(b, n) == IF b = <<>> THEN <<>> ELSE [i \in 1..n |-> 0] \o b

\* floor(b / 2^n), and b mod 2^n
ShiftRight(b, n) == SubSeq(b, n + 1, Len(b))
LowBits(b, n) == Trim(SubSeq(b, 1, IF n < Len(b) THEN n ELSE Len(b)))

LessBits(a, b) ==
  IF Len(a) # Len(b) THEN Len(a) < Len(b)
  ELSE \E i \in DOMAIN a :
         /\ a[i] < b[i]
         /\ \A j \in DOMAIN a : j > i => a[j] = b[j]

\* the same number in digits of 15 bits, on which the sums and products are
\* worked out
LimbBits == 15
Base == 2 ^ LimbBits

Limbs(b) ==
  [j \in 1..((Len(b) + LimbBits - 1) \div LimbBits) |->
     ValueOf(SubSeq(b, LimbBits * (j - 1) + 1,
                    IF LimbBits * j < Len(b) THEN LimbBits * j ELSE Len(b)))]

FromLimbs(l) ==
  Trim([i \in 1..(LimbBits * Len(l)) |->
          (l[(i - 1) \div LimbBits + 1] \div (2 ^ ((i - 1) % LimbBits))) % 2])

LimbAt(l, j) == IF j \in DOMAIN l THEN l[j] ELSE 0

RECURSIVE AddLimbs(_, _, _, _)
AddLimbs(a, b, j, carry) ==
  IF j > Len(a) /\ j > Len(b)
  THEN IF carry = 0 THEN <<>> ELSE <<carry>>
  ELSE LET s == LimbAt(a, j) + LimbAt(b, j) + carry
       IN  <<s % Base>> \o AddLimbs(a, b, j + 1, s \div Base)

\* a - b for a >= b
RECURSIVE SubLimbs(_, _, _, _)
SubLimbs(a, b, j, borrow) ==
  IF j > Len(a) THEN <<>>
  ELSE LET d == LimbAt(a, j) - LimbAt(b, j) - borrow
       IN  <<d % Base>> \o SubLimbs(a, b, j + 1, IF d < 0 THEN 1 ELSE 0)

\* a * k for one digit k
RECURSIVE ScaleLimbs(_, _, _, _)
ScaleLimbs(a, k, j, carry) ==
  IF j > Len(a)
  THEN IF carry = 0 THEN <<>> ELSE <<carry>>
  ELSE LET p == a[j] * k + carry
       IN  <<p % Base>> \o ScaleLimbs(a, k, j + 1, p \div Base)

RECURSIVE MulLimbs(_, _)
MulLimbs(a, b) ==
  IF b = <<>> THEN <<>>
  ELSE AddLimbs(ScaleLimbs(a, Head(b), 1, 0), <<0>> \o MulLimbs(a, Tail(b)), 1, 0)

\* quotient and remainder of the digits 1..j of a, with the remainder rem of
\* the digits above them carried in, by a divisor of at most 2^15
RECURSIVE DivLimbs(_, _, _, _)
DivLimbs(a, den, j, rem) ==
  IF j = 0 THEN [q |-> <<>>, r |-> rem]
  ELSE LET cur == rem * Base + a[j]
           next == DivLimbs(a, den, j - 1, cur % den)
       IN  [q |-> Append(next.q, cur \div den), r |-> next.r]

AddBits(a, b) == FromLimbs(AddLimbs(Limbs(a), Limbs(b), 1, 0))
SubBits(a, b) == FromLimbs(SubLimbs(Limbs(a), Limbs(b), 1, 0))
MulBits(a, b) == FromLimbs(MulLimbs(Limbs(a), Limbs(b)))

\* a binary64 number m * 2^e: the significand has 53 bits, or it is zero
Precision == 53

Zero == [m |-> <<>>, e |-> 0]

\* the binary64 number nearest to (n + a fraction) * 2^e, ties to even; the
\* fraction is 0, or above 0 and below 1 (sticky) for an n of over 53 bits
RoundToDouble(n, e, sticky) ==
  LET len == Len(n)
      s == len - Precision
  IN  IF len = 0 THEN Zero
      ELSE IF s <= 0 THEN [m |-> ShiftLeft(n, -s), e |-> e + s]
      ELSE LET q == ShiftRight(n, s)
               low == LowBits(n, s)
               half == ShiftLeft(<<1>>, s - 1)
               up == \/ LessBits(half, low)
                     \/ low = half /\ (sticky \/ q[1] = 1)
               rounded == IF up THEN AddBits(q, <<1>>) ELSE q
           IN  IF Len(rounded) > Precision
               THEN [m |-> ShiftRight(rounded, 1), e |-> e + s + 1]
               ELSE [m |-> rounded, e |-> e + s]

\* the number a decimal literal or column value num/den is read as
FromDecimal(num, den) ==
  IF num = 0 THEN Zero
  ELSE LET scaled == Limbs(ShiftLeft(Bits(num), 64))
           d == DivLimbs(scaled, den, Len(scaled), 0)
       IN  RoundToDouble(FromLimbs(d.q), -64, d.r > 0)

\* x * y
Times(x, y) == RoundToDouble(MulBits(x.m, y.m), x.e + y.e, FALSE)

\* the significand of x when the unit is 2^e, e <= x.e
Aligned(x, e) == ShiftLeft(x.m, x.e - e)

\* x + y
Plus(x, y) ==
  IF x.m = <<>> THEN y
  ELSE IF y.m = <<>> THEN x
  ELSE LET e == IF x.e < y.e THEN x.e ELSE y.e
       IN  RoundToDouble(AddBits(Aligned(x, e), Aligned(y, e)), e, FALSE)

\* x - y for x >= y
Minus(x, y) ==
  IF y.m = <<>> THEN x
  ELSE LET e == IF x.e < y.e THEN x.e ELSE y.e
       IN  RoundToDouble(SubBits(Aligned(x, e), Aligned(y, e)), e, FALSE)

\* x.toFixed(2), as the number of hundredths it shows: the integer n for
\* which n / 100 is nearest to x, the larger one of two
ToFixed2(x) ==
  LET n == MulBits(x.m, Bits(100))
      s == -x.e
  IN  IF x.m = <<>> THEN 0
      ELSE IF s <= 0 THEN ValueOf(ShiftLeft(n, -s))
      ELSE LET q == ShiftRight(n, s)
               low == LowBits(n, s)
               half == ShiftLeft(<<1>>, s - 1)
           IN  ValueOf(IF LessBits(low, half) THEN q ELSE AddBits(q, <<1>>))

\* the reducers of _index.tsx as JavaScript carries them out: log.price is the
\* binary64 number of the Float column (the model's price counts hundredths),
\* 0.029 the binary64 number of the literal
RECURSIVE DoubleLogSum(_, _)
DoubleLogSum(logs, logSum) ==
  IF logs = <<>> THEN logSum
  ELSE LET log == Head(logs)
           price == FromDecimal(log.price, 100)
           transactionFee == Times(price, FromDecimal(FeeRate, Scale))
       IN  DoubleLogSum(Tail(logs), Plus(logSum, Minus(price, transactionFee)))

RECURSIVE DoubleTotalRevenue(_, _)
DoubleTotalRevenue(shops, sum) ==
  IF shops = <<>> THEN sum
  ELSE DoubleTotalRevenue(Tail(shops),
                          Plus(sum, DoubleLogSum(Head(shops).BillingLog, Zero)))

-----------------------------------------------------------------------------
(* Time-series bucketing of the generations loader *)

\* GroupByDay without `entry.count++`: a day's later events are dropped
RECURSIVE GroupByDayNoIncrement(_, _)
GroupByDayNoIncrement(generations, chartData) ==
  IF generations = <<>> THEN chartData
  ELSE LET g == Head(generations)
           date == g.createdAt \div DayLen
           found == {i \in 1..Len(chartData) : chartData[i].date = date}
       IN  IF found # {}
           THEN GroupByDayNoIncrement(Tail(generations), chartData)
           ELSE GroupByDayNoIncrement(Tail(generations),
                                      Append(chartData, [date |-> date, count |-> 1]))

\* GroupByDay looking only at the last entry of chartData and counting from 0
RECURSIVE GroupByDayFromZero(_, _)
GroupByDayFromZero(generations, chartData) ==
  IF generations = <<>> THEN chartData
  ELSE LET g == Head(generations)
           date == g.createdAt \div DayLen
           n == Len(chartData)
       IN  IF n > 0 /\ chartData[n].date = date
           THEN GroupByDayFromZero(Tail(generations),
                                   [chartData EXCEPT ![n].count = @ + 1])
           ELSE GroupByDayFromZero(Tail(generations),
                                   Append(chartData, [date |-> date, count |-> 0]))

\* generations.forEach(g => { ... }) over chartData
RECURSIVE GroupByDay(_, _)
GroupByDay(generations, chartData) ==
  IF generations = <<>> THEN chartData
  ELSE LET g == Head(generations)
           date == IsoDate(g.createdAt)
           found == {i \in 1..Len(chartData) : chartData[i].date = date}
       IN  IF found # {}
           THEN LET entry == CHOOSE i \in found : \A j \in found : i <= j
                IN  GroupByDay(Tail(generations),
                               [chartData EXCEPT ![entry].count = @ + 1])
           ELSE GroupByDay(Tail(generations),
                           Append(chartData, [date |-> date, count |-> 1]))

ChartData(generations) == GroupByDay(generations, <<>>)

-----------------------------------------------------------------------------
(* Store queries *)

\* rows of a table whose DateTime column createdAt satisfies the condition
WhereCreatedAt(rows, c) == SelectSeq(rows, LAMBDA r : Admits(c, r.createdAt))

\* the rows of a table whatever shop they belong to
OfAnyShop(rows, id) == rows

\* rows of a table that belong to one shop
OfShop(rows, id) == SelectSeq(rows, LAMBDA r : r.shopId = id)

\* a query as it reaches the store: the table, the operation, the condition on
\* the createdAt column ({} when there is none) and the other arguments
Query(table, op, createdAt, args) ==
  [table |-> table, op |-> op, createdAt |-> createdAt, args |-> args]

\* a Shop row with the relations the index and shops pages include
\* (Generation: true, BillingLog: true, Plan: true, Session: true)
WithRelations(s) ==
  [id |-> s.id, domain |-> s.domain, createdAt |-> s.createdAt,
   isUninstalled |-> s.isUninstalled, Plan |-> s.planId # NULL,
   Generation |-> OfShop(generationTable, s.id),
   BillingLog |-> OfShop(billingTable, s.id)]

\* groupBy shopId with _count, orderBy _count asc
RECURSIVE RankedAsc(_, _)
RankedAsc(count, S) ==
  IF S = {} THEN {<<>>}
  ELSE UNION {{<<[shopId |-> s, count |-> count[s]]>> \o p :
                  p \in RankedAsc(count, S \ {s})} :
                s \in {x \in S : \A y \in S : count[x] <= count[y]}}

\* groupBy shopId with _count, orderBy _count desc: every ranking of the
\* groups with non-increasing counts (ties in any order)
RECURSIVE RankedDesc(_, _)
RankedDesc(count, S) ==
  IF S = {} THEN {<<>>}
  ELSE UNION {{<<[shopId |-> s, count |-> count[s]]>> \o p :
                  p \in RankedDesc(count, S \ {s})} :
                s \in {x \in S : \A y \in S : count[x] >= count[y]}}

TopN == 10

TopShops(rows) ==
  LET ids == {rows[i].shopId : i \in DOMAIN rows}
      count == [s \in ids |-> Cardinality({i \in DOMAIN rows : rows[i].shopId = s})]
  IN  {Take(r, TopN) : r \in RankedDesc(count, ids)}

-----------------------------------------------------------------------------
(* Store access: reads only, and no loader catches the rejection of an      *)
(* awaited query                                                             *)

\* a loader that records the request in the Log table
WritesLog ==
  /\ logTable' = Append(logTable, [shopId |-> NULL, createdAt |-> now])
  /\ UNCHANGED <<shopTable, generationTable, billingTable>>

\* the loaders call count, findMany, groupBy and findUnique and no operation
\* that writes
ReadOnly == UNCHANGED store

\* only the failure of a request's first query reaches the caller
FailsFirstOnly(k, n) == k = 1

\* does the store fail one of the n queries of a request (the k-th)
Fails(k, n) == k \in 1..n

\* the queries issued when the failed query is issued once more
IssuedWithRetry(all, k) ==
  IF k \in 1..Len(all) THEN Take(all, k) \o <<all[k]>> ELSE all

\* the queries issued by sequential awaits when the k-th one fails: the
\* rejection leaves the loader, the later queries are not reached
Issued(all, k) == IF k \in 1..Len(all) THEN Take(all, k) ELSE all

\* a rejection the loader does not catch: the framework's server error
Failure(route) == [route |-> route, status |-> 500]

-----------------------------------------------------------------------------
(* Loaders *)

\* the divisor of avgPerShop without its fallback
LengthUnguarded(length) == length

\* uniqueShops.length || 1
LengthOrOne(length) == IF length = 0 THEN 1 ELSE length

\* generations.tsx loader
\* what the loader does with the request req, entered at the instant t in
\* the zone z, when the store fails its k-th query (k = 0: none): the queries
\* it issues and the response it returns or throws
GenerationsOutcomes(req, z, t, k) ==
  LET dateFilter == GenerationsDateFilter(req)
      customStart == req.start
      customEnd == req.end
      dateCondition == GenerationsDateCondition(req, z, t)
      matching == WhereCreatedAt(generationTable, dateCondition)
      totalGenerations == Len(matching)
      uniqueShops == {matching[i].shopId : i \in DOMAIN matching}
      divisor == LengthOrOne(Cardinality(uniqueShops))
      avgPerShop == [num |-> totalGenerations, den |-> divisor]
  IN  IF ~ValidCondition(dateCondition)
      THEN \* the first query throws and the loader with it
           {[queries |-> <<Query("generation", "count", dateCondition, <<>>)>>,
             response |-> Failure("generations")]}
      ELSE {LET generations ==
                  [i \in DOMAIN order |-> [createdAt |-> matching[order[i]].createdAt]]
                chartData == ChartData(generations)
                shopIds == {topShops[i].shopId : i \in DOMAIN topShops}
                shopRecords == SelectSeq(shopTable, LAMBDA s : s.id \in shopIds)
                shopMap == [id \in {shopRecords[i].id : i \in DOMAIN shopRecords} |->
                              (CHOOSE s \in {shopRecords[i] : i \in DOMAIN shopRecords} :
                                 s.id = id).domain]
                all == <<Query("generation", "count", dateCondition, <<>>),
                         Query("generation", "findMany", dateCondition,
                               [distinct |-> "shopId"]),
                         Query("generation", "findMany", dateCondition,
                               [orderBy |-> "asc"]),
                         Query("generation", "groupBy", dateCondition,
                               [orderBy |-> "desc", take |-> TopN]),
                         Query("shop", "findMany", NoCondition,
                               [in |-> shopIds])>>
            IN  [queries |-> Issued(all, k),
                 response |->
                   IF Fails(k, Len(all))
                   THEN Failure("generations")
                   ELSE [route |-> "generations", status |-> 200,
                         totalGenerations |-> totalGenerations,
                         uniqueShops |-> Cardinality(uniqueShops),
                         avgPerShop |-> avgPerShop,
                         chartData |-> chartData,
                         topShops |-> topShops,
                         shopMap |-> shopMap,
                         dateFilter |-> dateFilter,
                         customStart |-> customStart,
                         customEnd |-> customEnd]] :
              order \in AscOrders(CreatedAtKeys(matching), DOMAIN matching),
              topShops \in TopShops(matching)}

GenerationsLoader ==
  /\ pc = "request"
  /\ request.route = "generations"
  /\ \E outcome \in GenerationsOutcomes(request, tz, now, failAt) :
       /\ queries' = outcome.queries
       /\ response' = outcome.response
  /\ pc' = "loaded"
  /\ ReadOnly
  /\ UNCHANGED <<now, tz, request, view, failAt, served, calls>>

\* what the _index.tsx loader does with the request req, entered at the
\* instant t in the zone z, when the store fails its k-th query (k = 0: none)
IndexOutcomes(req, z, t, k) ==
  LET dateFilter == IndexDateFilter(req)
      dateFilterCondition == IndexDateCondition(req, z, t)
      selected == WhereCreatedAt(shopTable, dateFilterCondition)
  IN  {LET shops == [i \in DOMAIN order |-> WithRelations(selected[order[i]])]
           totalShops == Len(shops)
           activeShops == Len(SelectSeq(shops, LAMBDA shop : ~shop.isUninstalled))
           totalGenerations ==
             SumSeq([i \in DOMAIN shops |-> Len(shops[i].Generation)])
           totalRevenue == TotalRevenue(shops, 0)
           shopsWithPlans == Len(SelectSeq(shops, LAMBDA shop : shop.Plan))
       IN  [queries |-> <<Query("shop", "findMany", dateFilterCondition,
                                [orderBy |-> "desc"])>>,
            response |->
              IF Fails(k, 1)
              THEN Failure("index")
              ELSE [route |-> "index", status |-> 200,
                    shops |-> shops,
                    stats |-> [totalShops |-> totalShops,
                               activeShops |-> activeShops,
                               totalGenerations |-> totalGenerations,
                               totalRevenue |-> totalRevenue,
                               shopsWithPlans |-> shopsWithPlans],
                    dateFilter |-> dateFilter]] :
         order \in DescOrders(CreatedAtKeys(selected), DOMAIN selected)}

\* _index.tsx loader, amounts counted exactly
IndexLoader ==
  /\ pc = "request"
  /\ request.route = "index"
  /\ \E outcome \in IndexOutcomes(request, tz, now, failAt) :
       /\ queries' = outcome.queries
       /\ response' = outcome.response
  /\ pc' = "loaded"
  /\ ReadOnly
  /\ UNCHANGED <<now, tz, request, view, failAt, served, calls>>

\* _index.tsx loader, totalRevenue as the binary64 number JavaScript computes
IndexLoaderDoubles ==
  /\ pc = "request"
  /\ request.route = "index"
  /\ \E outcome \in IndexOutcomes(request, tz, now, failAt) :
       /\ queries' = outcome.queries
       /\ response' =
            IF outcome.response.status = 200
            THEN [outcome.response EXCEPT
                    !.stats.totalRevenue =
                       DoubleTotalRevenue(outcome.response.shops, Zero)]
            ELSE outcome.response
  /\ pc' = "loaded"
  /\ ReadOnly
  /\ UNCHANGED <<now, tz, request, view, failAt, served, calls>>

\* shop.$shopId.tsx loader
RecentN == 10
LogTake == 50

\* a loader that takes every shopId as given
NeverMissing(shopId) == FALSE

\* !shopId
Missing(shopId) == ~Truthy(shopId)

\* findFirst without the where clause: the first shop of the table
FindFirst(shops, id) == Take(shops, 1)

\* prisma.shop.findUnique({ where: { id } }): the shop of that id, if any
FindUnique(shops, id) == SelectSeq(shops, LAMBDA s : s.id = id)

ShopDetailLoader ==
  /\ pc = "request"
  /\ request.route = "shop"
  /\ LET shopId == request.shopId
         found == FindUnique(shopTable, shopId)
     IN  IF Missing(shopId)
         THEN /\ queries' = <<>>
              /\ response' = [route |-> "shop", status |-> 400]
         ELSE IF Fails(failAt, 1)
         THEN /\ queries' = <<Query("shop", "findUnique", NoCondition, [id |-> shopId])>>
              /\ response' = Failure("shop")
         ELSE IF found = <<>>
         THEN /\ queries' = <<Query("shop", "findUnique", NoCondition, [id |-> shopId])>>
              /\ response' = [route |-> "shop", status |-> 404]
         ELSE LET gens == OfShop(generationTable, shopId)
                  bills == OfShop(billingTable, shopId)
                  logs == OfShop(logTable, shopId)
              IN  \E gOrder \in DescOrders(CreatedAtKeys(gens), DOMAIN gens),
                     bOrder \in DescOrders(TimestampKeys(bills), DOMAIN bills),
                     lOrder \in DescOrders(CreatedAtKeys(logs), DOMAIN logs) :
                    LET shop == [id |-> found[1].id, domain |-> found[1].domain,
                                 createdAt |-> found[1].createdAt,
                                 isUninstalled |-> found[1].isUninstalled,
                                 Plan |-> found[1].planId # NULL,
                                 Generation |-> Arrange(gens, gOrder),
                                 BillingLog |-> Arrange(bills, bOrder),
                                 Log |-> Take(Arrange(logs, lOrder), LogTake)]
                        totalRevenue == DetailRevenue(shop)
                        recentGenerations == Take(shop.Generation, RecentN)
                        recentBillingLogs == Take(shop.BillingLog, RecentN)
                    IN  /\ queries' = <<Query("shop", "findUnique", NoCondition, [id |-> shopId])>>
                        /\ response' = [route |-> "shop", status |-> 200,
                                        shop |-> shop,
                                        totalRevenue |-> totalRevenue,
                                        recentGenerations |-> recentGenerations,
                                        recentBillingLogs |-> recentBillingLogs]
  /\ pc' = "loaded"
  /\ ReadOnly
  /\ UNCHANGED <<now, tz, request, view, failAt, served, calls>>

\* shops page loader
PAGE_SIZE == 20

\* parseInt(s, 10) on the page strings the model's requests use; NaN otherwise
ParseInt(s) ==
  CASE s = "1" -> [nan |-> FALSE, n |-> 1]
    [] s = "2" -> [nan |-> FALSE, n |-> 2]
    [] s = "3" -> [nan |-> FALSE, n |-> 3]
    [] s = "0" -> [nan |-> FALSE, n |-> 0]
    [] s = "-1" -> [nan |-> FALSE, n |-> -1]
    [] OTHER -> [nan |-> TRUE, n |-> 0]

\* skip counted from the page after the one requested
SkipPast(page) == [nan |-> page.nan, n |-> page.n * PAGE_SIZE]

\* const skip = (page - 1) * PAGE_SIZE
Skip(page) == [nan |-> page.nan, n |-> (page.n - 1) * PAGE_SIZE]

ShopsLoader ==
  /\ pc = "request"
  /\ request.route = "shops"
  /\ LET page == ParseInt(OrElse(request.page, "1"))
         skip == Skip(page)
         totalShops == Len(shopTable)
     IN  /\ queries' = <<Query("shop", "findMany", NoCondition,
                            [orderBy |-> "desc", skip |-> skip, take |-> PAGE_SIZE]),
                      Query("shop", "count", NoCondition, <<>>)>>
         /\ IF skip.nan \/ skip.n < 0 \/ Fails(failAt, 2)
            THEN \* the client rejects a skip that is no non-negative integer;
                 \* Promise.all rejects when either query does
                 response' = Failure("shops")
            ELSE \E order \in DescOrders(CreatedAtKeys(shopTable), DOMAIN shopTable) :
                   LET sorted == [i \in DOMAIN order |-> WithRelations(shopTable[order[i]])]
                       shops == Take(Drop(sorted, skip.n), PAGE_SIZE)
                   IN  response' = [route |-> "shops", status |-> 200,
                                    shops |-> shops,
                                    totalShops |-> totalShops,
                                    page |-> page.n,
                                    totalPages |-> (totalShops + PAGE_SIZE - 1) \div PAGE_SIZE]
  /\ pc' = "loaded"
  /\ ReadOnly
  /\ UNCHANGED <<now, tz, request, view, failAt, served, calls>>

-----------------------------------------------------------------------------
(* Route components *)

\* the table rows of Index and ShopsPage: shopRevenue and generationsCount
ShopRows(shops) ==
  [i \in DOMAIN shops |->
     [id |-> shops[i].id,
      shopRevenue |-> ShopRevenue(shops[i]),
      generationsCount |-> Len(shops[i].Generation)]]

\* the component renders the data of a loader that returned
Render ==
  /\ pc = "loaded"
  /\ response.status = 200
  /\ view' = IF response.route \in {"index", "shops"}
             THEN [rows |-> ShopRows(response.shops)]
             ELSE [rows |-> <<>>]
  /\ pc' = "rendered"
  /\ UNCHANGED <<store, now, tz, request, queries, response, failAt, served, calls>>

\* Index with the amounts as binary64 numbers: the total and each row's
\* shopRevenue, and what toFixed(2) shows of them (in hundredths)
RenderDoubles ==
  /\ pc = "loaded"
  /\ response.status = 200
  /\ response.route = "index"
  /\ view' =
       [totalRevenue |-> ToFixed2(response.stats.totalRevenue),
        rows |-> [i \in DOMAIN response.shops |->
                    LET shopRevenue == DoubleLogSum(response.shops[i].BillingLog, Zero)
                    IN  [id |-> response.shops[i].id,
                         shopRevenue |-> shopRevenue,
                         shown |-> ToFixed2(shopRevenue),
                         generationsCount |-> Len(response.shops[i].Generation)]]]
  /\ pc' = "rendered"
  /\ UNCHANGED <<store, now, tz, request, queries, response, failAt, served, calls>>

-----------------------------------------------------------------------------
(* Requests and store contents *)

ShopNames == <<"A", "B", "C", "D">>

ShopIds(n) == {ShopNames[i] : i \in 1..n}

\* the id of the i-th shop of a store of any size
ShopName(i) == IF i \in DOMAIN ShopNames THEN ShopNames[i] ELSE ToString(i)

\* domain is @unique: the pair stands for the shop's own myshopify.com name
DomainOf(id) == <<id, "myshopify.com">>

Shop(id, createdAt, isUninstalled, planId) ==
  [id |-> id, domain |-> DomainOf(id), createdAt |-> createdAt,
   isUninstalled |-> isUninstalled, planId |-> planId]

Request(route, dateFilter, start, end, page, shopId) ==
  [route |-> route, dateFilter |-> dateFilter, start |-> start, end |-> end,
   page |-> page, shopId |-> shopId]

NoResponse == [route |-> "none", status |-> 0]
NoView == [rows |-> <<>>]

\* the state in which a request has arrived and its loader has not run
Arrived ==
  /\ pc = "request"
  /\ queries = <<>>
  /\ response = NoResponse
  /\ view = NoView

\* it is the first request, no other is in flight, and the store answers
\* every query
Alone ==
  /\ failAt = 0
  /\ served = 1
  /\ calls = <<>>

-----------------------------------------------------------------------------
(* Revenue: requests to the three pages that compute revenue, over stores    *)
(* whose shops have billing logs of various prices                           *)

Prices == {0, 999, 2500}

InitRevenue ==
  /\ \E n \in 0..MaxShops :
       /\ shopTable = [i \in 1..n |-> Shop(ShopNames[i], 0, FALSE, NULL)]
       /\ billingTable \in
            SeqsUpTo([shopId : ShopIds(n), price : Prices, timestamp : {0}],
                     MaxBillingLogs)
  /\ generationTable = <<>>
  /\ logTable = <<>>
  /\ now = 0
  /\ tz = UTC
  /\ request \in
       {Request("index", NULL, NULL, NULL, NULL, NULL),
        Request("shops", NULL, NULL, NULL, NULL, NULL),
        Request("shops", NULL, NULL, NULL, "2", NULL)}
       \cup {Request("shop", NULL, NULL, NULL, NULL, id) : id \in ShopIds(MaxShops) \cup {NULL}}
  /\ Arrived
  /\ Alone

NextRevenue == IndexLoader \/ ShopDetailLoader \/ ShopsLoader \/ Render

SpecRevenue == InitRevenue /\ [][NextRevenue]_vars

-----------------------------------------------------------------------------
(* Chart: requests to the generations page over stores whose generations    *)
(* lie around day boundaries, in storage order of any kind                   *)

\* 2023-12-31T23:00Z, then hours of 2024-01-01 and 2024-01-02
ChartTimes == {-1, 0, 1, 23, 24, 47}

InitChart ==
  /\ shopTable = <<Shop("A", -1, FALSE, NULL)>>
  /\ generationTable \in
       SeqsUpTo([shopId : {"A"}, createdAt : ChartTimes], MaxGenerations)
  /\ billingTable = <<>>
  /\ logTable = <<>>
  /\ now = 49
  /\ tz \in Zones
  /\ request \in {Request("generations", f, NULL, NULL, NULL, NULL) :
                    f \in {"all", "today", NULL}}
  /\ Arrived
  /\ Alone

NextChart == GenerationsLoader \/ Render

SpecChart == InitChart /\ [][NextChart]_vars

-----------------------------------------------------------------------------
(* Custom range: requests with dateFilter=custom (or an unknown token) and   *)
(* all kinds of start and end values, over records around the range's ends   *)

\* 2023-12-31T23:00Z, 2024-01-01T00:00Z, 2024-01-15T12:00Z, 2024-01-31T00:00Z,
\* 2024-01-31T12:00Z, 2024-01-31T23:00Z, 2024-02-01T00:00Z
CustomTimes == {-1, 0, 348, 720, 732, 743, 744}

ParamValues == {NULL, "", "abc"} \cup DateStrings

CustomRequests ==
  {Request("generations", "custom", a, b, NULL, NULL) : a, b \in ParamValues}
    \cup {Request(r, f, a, a, NULL, NULL) :
            r \in {"generations", "index"},
            f \in {"all", "bogus", "custom"},
            a \in {NULL, "abc", "2024-01-15"}}

InitCustom ==
  /\ request \in CustomRequests
  /\ \E times \in SeqsUpTo(CustomTimes, MaxProbes) :
       IF request.route = "index"
       THEN /\ shopTable =
                 [i \in DOMAIN times |-> Shop(ShopNames[i], times[i], FALSE, NULL)]
            /\ generationTable = <<>>
       ELSE /\ shopTable = <<Shop("A", -1, FALSE, NULL)>>
            /\ generationTable =
                 [i \in DOMAIN times |-> [shopId |-> "A", createdAt |-> times[i]]]
  /\ billingTable = <<>>
  /\ logTable = <<>>
  /\ now = 745
  /\ tz \in Zones
  /\ Arrived
  /\ Alone

NextCustom == GenerationsLoader \/ IndexLoader \/ Render

SpecCustom == InitCustom /\ [][NextCustom]_vars

-----------------------------------------------------------------------------
(* Token ranges: requests with a filter token at every hour of the days on   *)
(* which a server zone changes its clocks, over records of ages around the   *)
(* ends of the ranges                                                        *)

\* 2024-03-10 and 2024-11-03 (New York), 2024-03-31 and 2024-10-27 (Berlin),
\* each from 00:00Z to 08:00Z of the next day
Nows ==
  UNION {{d * DayLen + h : h \in 0..32} : d \in {69, 90, 300, 307}}

\* age of a record at the request, in hours (negative: a record timestamped
\* after the request time)
Ages == {-24, 0, 1, 25, 168, 191, 192, 193, 721}

RangeFilters == {"today", "7days", "30days", "all", NULL}

InitRange ==
  /\ now \in Nows
  /\ tz \in Zones
  /\ \E route \in {"index", "generations"}, f \in RangeFilters,
        ages \in SeqsUpTo(Ages, MaxProbes) :
       /\ request = Request(route, f, NULL, NULL, NULL, NULL)
       /\ IF route = "index"
          THEN /\ shopTable =
                    [i \in DOMAIN ages |-> Shop(ShopNames[i], now - ages[i], FALSE, NULL)]
               /\ generationTable = <<>>
          ELSE /\ shopTable = <<Shop("A", 0, FALSE, NULL)>>
               /\ generationTable =
                    [i \in DOMAIN ages |-> [shopId |-> "A", createdAt |-> now - ages[i]]]
  /\ billingTable = <<>>
  /\ logTable = <<>>
  /\ Arrived
  /\ Alone

NextRange == GenerationsLoader \/ IndexLoader \/ Render

SpecRange == InitRange /\ [][NextRange]_vars

-----------------------------------------------------------------------------
(* Ranking: requests to the generations page over stores of more shops than  *)
(* the ranking lists, with equal and unequal numbers of generations           *)

MaxRankedShops == 11

\* how many generations the i-th of n shops has
CountProfiles == {"pairs", "thirds", "descending"}

ProfileCount(profile, n, i) ==
  CASE profile = "pairs" -> (i + 1) \div 2
    [] profile = "thirds" -> (i + 2) \div 3
    [] profile = "descending" -> (n + 2 - i) \div 2

\* the k-th generation of the i-th shop is created on the k-th day of 2024 at
\* an hour of its own, but for the first generation of every fourth shop,
\* which is created in 2023
RECURSIVE GenerationsOfShops(_, _, _)
GenerationsOfShops(profile, n, i) ==
  IF i = 0 THEN <<>>
  ELSE GenerationsOfShops(profile, n, i - 1) \o
         [k \in 1..ProfileCount(profile, n, i) |->
            [shopId |-> ShopName(i),
             createdAt |-> IF k = 1 /\ i % 4 = 0 THEN -i
                           ELSE DayLen * (k - 1) + i]]

RankingRequests ==
  {Request("generations", "all", NULL, NULL, NULL, NULL),
   Request("generations", "custom", "2024-01-01", "2024-01-15", NULL, NULL)}

InitRanking ==
  /\ \/ \E n \in 0..MaxRankedShops, profile \in CountProfiles :
          /\ shopTable = [i \in 1..n |-> Shop(ShopName(i), 0, FALSE, NULL)]
          /\ generationTable = GenerationsOfShops(profile, n, n)
     \/ /\ shopTable = [i \in 1..MaxShops |-> Shop(ShopName(i), 0, FALSE, NULL)]
        /\ generationTable \in
             SeqsUpTo([shopId : ShopIds(MaxShops), createdAt : {0, 15 * DayLen}],
                      MaxGenerations)
  /\ billingTable = <<>>
  /\ logTable = <<>>
  /\ now = 32 * DayLen
  /\ tz = UTC
  /\ request \in RankingRequests
  /\ Arrived
  /\ Alone

NextRanking == GenerationsLoader \/ Render

SpecRanking == InitRanking /\ [][NextRanking]_vars

-----------------------------------------------------------------------------
(* Paging: requests for pages of the shops list over stores of up to two     *)
(* full pages and one shop more                                               *)

MaxPagedShops == 41

PageValues == {NULL, "", "1", "2", "3", "0", "-1", "abc"}

InitPaging ==
  /\ \E n \in 0..MaxPagedShops, newestFirst \in BOOLEAN :
       shopTable =
         [i \in 1..n |-> Shop(ShopName(i), IF newestFirst THEN n - i ELSE i,
                              FALSE, NULL)]
  /\ generationTable = <<>>
  /\ billingTable = <<>>
  /\ logTable = <<>>
  /\ now = 2 * MaxPagedShops
  /\ tz = UTC
  /\ request \in {Request("shops", NULL, NULL, NULL, p, NULL) : p \in PageValues}
  /\ Arrived
  /\ Alone

NextPaging == ShopsLoader \/ Render

SpecPaging == InitPaging /\ [][NextPaging]_vars

-----------------------------------------------------------------------------
(* Shop detail: requests to the shop page with the id of a shop, of no shop, *)
(* and with none, over stores of shops with generations and billing logs     *)

ShopIdValues == ShopIds(MaxShops + 1) \cup {NULL, ""}

InitDetail ==
  /\ \E n \in 0..MaxShops :
       /\ shopTable = [i \in 1..n |-> Shop(ShopName(i), i, FALSE, NULL)]
       /\ generationTable \in
            SeqsUpTo([shopId : ShopIds(n), createdAt : {0, 1}], MaxGenerations)
       /\ billingTable \in
            SeqsUpTo([shopId : ShopIds(n), price : {999}, timestamp : {0}], MaxProbes)
  /\ logTable = <<>>
  /\ now = 2
  /\ tz = UTC
  /\ request \in {Request("shop", NULL, NULL, NULL, NULL, id) : id \in ShopIdValues}
  /\ Arrived
  /\ Alone

NextDetail == ShopDetailLoader \/ Render

SpecDetail == InitDetail /\ [][NextDetail]_vars

-----------------------------------------------------------------------------
(* Session: requests to the four pages one after another, over a store that  *)
(* may fail any one query of a request                                        *)

MaxRequests == 2

\* the query of a request the store fails: none, or one of the (up to) five
FailurePoints == 0..5

SessionRequests ==
  {Request("generations", f, a, b, NULL, NULL) :
     f \in {"all", "today"}, a \in {NULL}, b \in {NULL}}
    \cup {Request("generations", "custom", "2024-01-01", b, NULL, NULL) :
            b \in {"2024-01-15", "abc"}}
    \cup {Request("index", NULL, NULL, NULL, NULL, NULL)}
    \cup {Request("shops", NULL, NULL, NULL, p, NULL) : p \in {NULL, "2", "abc"}}
    \cup {Request("shop", NULL, NULL, NULL, NULL, id) : id \in {NULL, "A", "D"}}

InitSession ==
  /\ \E n \in 0..MaxShops :
       /\ shopTable = [i \in 1..n |-> Shop(ShopName(i), 0, FALSE, NULL)]
       /\ generationTable \in
            SeqsUpTo([shopId : ShopIds(n), createdAt : {0, DayLen}], MaxProbes)
       /\ billingTable = [i \in 1..n |-> [shopId |-> ShopName(i), price |-> 999,
                                          timestamp |-> 0]]
  /\ logTable = <<>>
  /\ now = DayLen + 1
  /\ tz = UTC
  /\ request \in SessionRequests
  /\ Arrived
  /\ failAt \in FailurePoints
  /\ served = 1
  /\ calls = <<>>

\* the next request arrives when the one before has been answered
NewRequest ==
  /\ pc \in {"loaded", "rendered"}
  /\ served < MaxRequests
  /\ request' \in SessionRequests
  /\ failAt' \in FailurePoints
  /\ now' = now + 1
  /\ served' = served + 1
  /\ pc' = "request"
  /\ queries' = <<>>
  /\ response' = NoResponse
  /\ view' = NoView
  /\ UNCHANGED <<store, tz, calls>>

NextSession ==
  \/ GenerationsLoader
  \/ IndexLoader
  \/ ShopDetailLoader
  \/ ShopsLoader
  \/ Render
  \/ NewRequest

SpecSession == InitSession /\ [][NextSession]_vars

-----------------------------------------------------------------------------
(* Concurrent requests: invocations of the generations loader in flight at   *)
(* the same time; the store answers the pending query of one of them and     *)
(* that invocation runs on to its next await                                  *)

MaxCalls == 2

\* an invocation that has not run yet: its request and the instant at which
\* it will read the clock
Call(req, t) ==
  [request |-> req, now |-> t, pc |-> "arrived", entered |-> 0,
   dateCondition |-> NoCondition, totalGenerations |-> 0, uniqueShops |-> {},
   chartData |-> <<>>, topShops |-> <<>>, queries |-> <<>>,
   response |-> NoResponse]

\* a dateCondition kept in one variable of the module: every invocation reads
\* what the invocation entered last has written
DateConditionOfLast(r) ==
  LET last == CHOOSE q \in DOMAIN calls :
                \A p \in DOMAIN calls : calls[q].entered >= calls[p].entered
  IN  calls[last].dateCondition

\* dateCondition is a variable of the invocation (let, inside loader)
DateConditionOf(r) == calls[r].dateCondition

\* nothing but the invocations changes
CallsOnly ==
  /\ ReadOnly
  /\ UNCHANGED <<now, tz, request, pc, queries, response, view, failAt, served>>

\* the loader is entered: it reads the URL and the clock, builds
\* dateCondition and issues the count
Enter(r) ==
  /\ calls[r].pc = "arrived"
  /\ LET dateCondition == GenerationsDateCondition(calls[r].request, tz, calls[r].now)
     IN  calls' =
           [calls EXCEPT
              ![r].pc = "count",
              ![r].entered = 1 + Cardinality({q \in DOMAIN calls : calls[q].entered > 0}),
              ![r].dateCondition = dateCondition,
              ![r].queries = <<Query("generation", "count", dateCondition, <<>>)>>]
  /\ CallsOnly

\* await prisma.generation.count
AnswerCount(r) ==
  /\ calls[r].pc = "count"
  /\ LET dateCondition == DateConditionOf(r)
         totalGenerations == Len(WhereCreatedAt(generationTable, dateCondition))
     IN  calls' =
           IF ~ValidCondition(dateCondition)
           THEN [calls EXCEPT ![r].pc = "failed",
                              ![r].response = Failure("generations")]
           ELSE [calls EXCEPT
                   ![r].pc = "distinct",
                   ![r].totalGenerations = totalGenerations,
                   ![r].queries = Append(@, Query("generation", "findMany", dateCondition,
                                                  [distinct |-> "shopId"]))]
  /\ CallsOnly

\* await prisma.generation.findMany distinct shopId
AnswerDistinct(r) ==
  /\ calls[r].pc = "distinct"
  /\ LET dateCondition == DateConditionOf(r)
         matching == WhereCreatedAt(generationTable, dateCondition)
     IN  calls' =
           [calls EXCEPT
              ![r].pc = "findMany",
              ![r].uniqueShops = {matching[i].shopId : i \in DOMAIN matching},
              ![r].queries = Append(@, Query("generation", "findMany", dateCondition,
                                             [orderBy |-> "asc"]))]
  /\ CallsOnly

\* await prisma.generation.findMany orderBy createdAt asc, then the bucketing
AnswerFindMany(r) ==
  /\ calls[r].pc = "findMany"
  /\ LET dateCondition == DateConditionOf(r)
         matching == WhereCreatedAt(generationTable, dateCondition)
     IN  \E order \in AscOrders(CreatedAtKeys(matching), DOMAIN matching) :
           LET generations ==
                 [i \in DOMAIN order |-> [createdAt |-> matching[order[i]].createdAt]]
           IN  calls' =
                 [calls EXCEPT
                    ![r].pc = "groupBy",
                    ![r].chartData = ChartData(generations),
                    ![r].queries = Append(@, Query("generation", "groupBy", dateCondition,
                                                   [orderBy |-> "desc", take |-> TopN]))]
  /\ CallsOnly

\* await prisma.generation.groupBy
AnswerGroupBy(r) ==
  /\ calls[r].pc = "groupBy"
  /\ LET dateCondition == DateConditionOf(r)
         matching == WhereCreatedAt(generationTable, dateCondition)
     IN  \E topShops \in TopShops(matching) :
           LET shopIds == {topShops[i].shopId : i \in DOMAIN topShops}
           IN  calls' =
                 [calls EXCEPT
                    ![r].pc = "shops",
                    ![r].topShops = topShops,
                    ![r].queries = Append(@, Query("shop", "findMany", NoCondition,
                                                   [in |-> shopIds]))]
  /\ CallsOnly

\* await prisma.shop.findMany, then return json(...)
AnswerShops(r) ==
  /\ calls[r].pc = "shops"
  /\ LET call == calls[r]
         shopIds == {call.topShops[i].shopId : i \in DOMAIN call.topShops}
         shopRecords == SelectSeq(shopTable, LAMBDA s : s.id \in shopIds)
         shopMap == [id \in {shopRecords[i].id : i \in DOMAIN shopRecords} |->
                       (CHOOSE s \in {shopRecords[i] : i \in DOMAIN shopRecords} :
                          s.id = id).domain]
         divisor == LengthOrOne(Cardinality(call.uniqueShops))
     IN  calls' =
           [calls EXCEPT
              ![r].pc = "done",
              ![r].response =
                 [route |-> "generations", status |-> 200,
                  totalGenerations |-> call.totalGenerations,
                  uniqueShops |-> Cardinality(call.uniqueShops),
                  avgPerShop |-> [num |-> call.totalGenerations, den |-> divisor],
                  chartData |-> call.chartData,
                  topShops |-> call.topShops,
                  shopMap |-> shopMap,
                  dateFilter |-> GenerationsDateFilter(call.request),
                  customStart |-> call.request.start,
                  customEnd |-> call.request.end]]
  /\ CallsOnly

\* requests whose date conditions differ over the model's records
ConcurrentRequests ==
  {Request("generations", "all", NULL, NULL, NULL, NULL),
   Request("generations", "today", NULL, NULL, NULL, NULL),
   Request("generations", "custom", "2024-01-01", "2024-01-01", NULL, NULL),
   Request("generations", "custom", "2024-01-01", "abc", NULL, NULL)}

\* the invocations read the clock an hour apart, the second on the next day
InitConcurrent ==
  /\ shopTable = [i \in 1..MaxShops |-> Shop(ShopName(i), 0, FALSE, NULL)]
  /\ generationTable \in
       {<<[shopId |-> "A", createdAt |-> 0]>> \o probes :
          probes \in SeqsUpTo([shopId : {"A", "B"}, createdAt : {0, DayLen}], 1)}
  /\ billingTable = <<>>
  /\ logTable = <<>>
  /\ now = DayLen - 1
  /\ tz = UTC
  /\ \E requests \in [1..MaxCalls -> ConcurrentRequests] :
       calls = [r \in 1..MaxCalls |-> Call(requests[r], now + r - 1)]
  /\ request = Request("none", NULL, NULL, NULL, NULL, NULL)
  /\ pc = "concurrent"
  /\ queries = <<>>
  /\ response = NoResponse
  /\ view = NoView
  /\ failAt = 0
  /\ served = MaxCalls

NextConcurrent ==
  \E r \in DOMAIN calls :
     \/ Enter(r)
     \/ AnswerCount(r)
     \/ AnswerDistinct(r)
     \/ AnswerFindMany(r)
     \/ AnswerGroupBy(r)
     \/ AnswerShops(r)

SpecConcurrent == InitConcurrent /\ [][NextConcurrent]_vars

-----------------------------------------------------------------------------
(* Doubles: requests to the dashboard over shops with billing logs, the      *)
(* revenue worked out in binary64 as the program does                         *)

\* prices in hundredths: 0.00, 0.50, 9.99, 15.00, 25.00
DoublePrices == Prices \cup {50, 1500}

InitDoubles ==
  /\ \E n \in 0..MaxShops :
       /\ shopTable = [i \in 1..n |-> Shop(ShopName(i), -i, FALSE, NULL)]
       /\ billingTable \in
            SeqsUpTo([shopId : ShopIds(n), price : DoublePrices, timestamp : {0}],
                     MaxProbes + 1)
  /\ generationTable = <<>>
  /\ logTable = <<>>
  /\ now = 0
  /\ tz = UTC
  /\ request = Request("index", NULL, NULL, NULL, NULL, NULL)
  /\ Arrived
  /\ Alone

NextDoubles == IndexLoaderDoubles \/ RenderDoubles

SpecDoubles == InitDoubles /\ [][NextDoubles]_vars

-----------------------------------------------------------------------------
(* Writers: one invocation of the generations loader, one await at a time,   *)
(* while another client of the same database (the application that records   *)
(* generations) inserts and deletes Generation rows between its queries       *)

MaxStored == 3

\* rows the other client writes
WrittenRows == [shopId : {"A", "B"}, createdAt : {0, DayLen}]

\* nothing but the Generation table changes
GenerationTableOnly ==
  UNCHANGED <<shopTable, billingTable, logTable, now, tz, request, pc, queries,
              response, view, failAt, served, calls>>

\* model Generation: a row is created
InsertGeneration ==
  /\ Len(generationTable) < MaxStored
  /\ \E row \in WrittenRows : generationTable' = Append(generationTable, row)
  /\ GenerationTableOnly

\* model Generation: a row is deleted
DeleteGeneration ==
  /\ \E i \in DOMAIN generationTable :
       generationTable' = SubSeq(generationTable, 1, i - 1)
                            \o SubSeq(generationTable, i + 1, Len(generationTable))
  /\ GenerationTableOnly

WriterRequests ==
  {Request("generations", "all", NULL, NULL, NULL, NULL),
   Request("generations", "today", NULL, NULL, NULL, NULL)}

InitWriters ==
  /\ shopTable = [i \in 1..MaxShops |-> Shop(ShopName(i), 0, FALSE, NULL)]
  /\ generationTable \in SeqsUpTo(WrittenRows, 1)
  /\ billingTable = <<>>
  /\ logTable = <<>>
  /\ now = DayLen + 1
  /\ tz = UTC
  /\ \E req \in WriterRequests : calls = <<Call(req, now)>>
  /\ request = Request("none", NULL, NULL, NULL, NULL, NULL)
  /\ pc = "concurrent"
  /\ queries = <<>>
  /\ response = NoResponse
  /\ view = NoView
  /\ failAt = 0
  /\ served = 1

NextWriters ==
  \/ \E r \in DOMAIN calls :
        \/ Enter(r)
        \/ AnswerCount(r)
        \/ AnswerDistinct(r)
        \/ AnswerFindMany(r)
        \/ AnswerGroupBy(r)
        \/ AnswerShops(r)
  \/ InsertGeneration
  \/ DeleteGeneration

SpecWriters == InitWriters /\ [][NextWriters]_vars

-----------------------------------------------------------------------------
(* Generations page: the mounted GenerationsStatsPage, its filter buttons,   *)
(* its calendar and its effect. `request` is the location a navigation       *)
(* leads to; `view` holds what the component reads (searchParams and the     *)
(* loader data of the location shown) and its state. The page runs in the    *)
(* zone tz.                                                                   *)

\* the days of the model's date strings
DateString(d) == CHOOSE s \in DateStrings : DayNumber(s) = d

\* format(date, "yyyy-MM-dd") of date-fns: the local calendar date
Format(date) == DateString(LocalDay(tz, date.time))

\* the days the calendar offers: none after maxDate = new Date()
CalendarDays == {d \in {0, 14, 30} : LocalMidnight(tz, d) <= now}

\* the options of the filter buttons
FilterOptions == {"today", "7days", "30days", "all", "custom"}

Mounted == "calendarOpen" \in DOMAIN view

\* setSearchParams(params): a navigation to the same route starts, in place
\* of one that has not finished
SetSearchParams(params) ==
  /\ request' = params
  /\ pc' = "request"
  /\ queries' = <<>>
  /\ response' = NoResponse

PageOnly == ReadOnly /\ UNCHANGED <<now, tz, failAt, served, calls>>

\* first render of the component with the loader's data
Mount ==
  /\ pc = "loaded"
  /\ response.status = 200
  /\ ~Mounted
  /\ view' = [searchParams |-> request,
              dateFilter |-> response.dateFilter,
              customStart |-> response.customStart,
              customEnd |-> response.customEnd,
              calendarOpen |-> NULL,
              pendingStart |-> OrElse(response.customStart, NULL),
              pendingEnd |-> OrElse(response.customEnd, NULL),
              effect |-> TRUE]
  /\ pc' = "mounted"
  /\ PageOnly
  /\ UNCHANGED <<request, queries, response>>

\* a navigation has finished: useSearchParams and useLoaderData give the new
\* location and its data, the component's state is kept
Navigated ==
  /\ pc = "loaded"
  /\ response.status = 200
  /\ Mounted
  /\ ~view.effect
  /\ view' = [view EXCEPT !.searchParams = request,
                          !.dateFilter = response.dateFilter,
                          !.customStart = response.customStart,
                          !.customEnd = response.customEnd]
  /\ pc' = "mounted"
  /\ PageOnly
  /\ UNCHANGED <<request, queries, response>>

\* a handler that drops start and end whatever the filter
HandleDateFilterClearing(filter) ==
  /\ Mounted
  /\ ~view.effect
  /\ SetSearchParams([view.searchParams EXCEPT !.dateFilter = filter,
                                               !.start = NULL, !.end = NULL])
  /\ view' = [view EXCEPT !.calendarOpen = NULL]
  /\ PageOnly

\* handleDateFilter
HandleDateFilter(filter) ==
  /\ Mounted
  /\ ~view.effect
  /\ LET params == [view.searchParams EXCEPT !.dateFilter = filter]
     IN  SetSearchParams(IF filter # "custom"
                         THEN [params EXCEPT !.start = NULL, !.end = NULL]
                         ELSE params)
  /\ view' = [view EXCEPT !.calendarOpen = NULL]
  /\ PageOnly

\* onClick of the Start and End buttons, rendered under the custom filter
OpenCalendar(which) ==
  /\ Mounted
  /\ ~view.effect
  /\ view.dateFilter = "custom"
  /\ view' = [view EXCEPT !.calendarOpen = which]
  /\ PageOnly
  /\ UNCHANGED <<request, pc, queries, response>>

\* onClick of the calendar's close button
CloseCalendar ==
  /\ Mounted
  /\ ~view.effect
  /\ view.calendarOpen # NULL
  /\ view' = [view EXCEPT !.calendarOpen = NULL]
  /\ PageOnly
  /\ UNCHANGED <<request, pc, queries, response>>

\* handleCalendarSelect: the effect is due when a dependency has changed
HandleCalendarSelect(date) ==
  /\ Mounted
  /\ ~view.effect
  /\ view.calendarOpen # NULL
  /\ LET formatted == Format(date)
     IN  view' =
           IF view.calendarOpen = "start"
           THEN [view EXCEPT !.pendingStart = formatted,
                             !.calendarOpen = NULL,
                             !.effect = (formatted # view.pendingStart)]
           ELSE [view EXCEPT !.pendingEnd = formatted,
                             !.calendarOpen = NULL,
                             !.effect = (formatted # view.pendingEnd)]
  /\ PageOnly
  /\ UNCHANGED <<request, pc, queries, response>>

\* the effect on [pendingStart, pendingEnd], run after the render that
\* changed them and after the first render
Effect ==
  /\ Mounted
  /\ view.effect
  /\ view' = [view EXCEPT !.effect = FALSE]
  /\ IF view.dateFilter = "custom" /\ Truthy(view.pendingStart) /\ Truthy(view.pendingEnd)
     THEN SetSearchParams([view.searchParams EXCEPT !.dateFilter = "custom",
                                                    !.start = view.pendingStart,
                                                    !.end = view.pendingEnd])
     ELSE UNCHANGED <<request, pc, queries, response>>
  /\ PageOnly

\* the locations the page is opened at: with and without a filter, with a
\* custom range, with and without another parameter
PageRequests ==
  {Request("generations", f, NULL, NULL, p, NULL) :
     f \in {NULL, "all", "today", "custom"}, p \in {NULL, "2"}}
    \cup {Request("generations", "custom", a, b, p, NULL) :
            a, b \in {"2024-01-01", "2024-01-15"}, p \in {NULL, "2"}}

InitPage ==
  /\ request \in PageRequests
  /\ shopTable = <<Shop("A", 0, FALSE, NULL)>>
  /\ generationTable = [i \in 1..2 |-> [shopId |-> "A", createdAt |-> 14 * DayLen * (i - 1)]]
  /\ billingTable = <<>>
  /\ logTable = <<>>
  /\ now = 745
  /\ tz \in Zones
  /\ Arrived
  /\ Alone

NextPage ==
  \/ GenerationsLoader
  \/ Mount
  \/ Navigated
  \/ \E filter \in FilterOptions : HandleDateFilter(filter)
  \/ \E which \in {"start", "end"} : OpenCalendar(which)
  \/ CloseCalendar
  \/ \E d \in CalendarDays : HandleCalendarSelect(DateObj(LocalMidnight(tz, d)))
  \/ Effect

SpecPage == InitPage /\ [][NextPage]_vars

-----------------------------------------------------------------------------
(* Dashboard: requests to the dashboard index with and without a date        *)
(* filter, over shops created inside and outside the range, installed or     *)
(* not, with and without a plan, whose generations and billing logs are      *)
(* timestamped inside and outside the range                                   *)

MaxIndexShops == 2
MaxIndexRecords == 2

\* 2024-01-02T00:00Z, before the 7days range of the request, and
\* 2024-01-31T00:00Z, inside it
IndexTimes == {24, 720}

\* the shops that have generations and billing logs
RecordedShops == {"A", "B"}

\* isUninstalled and planId of a shop
ShopKinds == {<<FALSE, NULL>>, <<TRUE, NULL>>, <<FALSE, "plan">>}

InitIndex ==
  /\ \E n \in 0..MaxIndexShops :
       \E times \in [1..n -> IndexTimes], kinds \in [1..n -> ShopKinds] :
          /\ shopTable =
               [i \in 1..n |-> Shop(ShopName(i), times[i], kinds[i][1], kinds[i][2])]
          /\ generationTable \in
               SeqsUpTo([shopId : ShopIds(n) \cap RecordedShops, createdAt : IndexTimes],
                        MaxIndexRecords)
          /\ billingTable \in
               SeqsUpTo([shopId : ShopIds(n) \cap RecordedShops, price : {999},
                         timestamp : IndexTimes],
                        MaxProbes)
  /\ logTable = <<>>
  /\ now = 745
  /\ tz = UTC
  /\ request \in {Request("index", f, NULL, NULL, NULL, NULL) : f \in {"7days", "all"}}
  /\ Arrived
  /\ Alone

NextIndex == IndexLoader \/ Render

SpecIndex == InitIndex /\ [][NextIndex]_vars

-----------------------------------------------------------------------------
(* Recent records: requests to the shop page of a shop with fewer and more   *)
(* generations and billing logs than the page lists and fewer and more logs  *)
(* than the loader takes, stored oldest or newest first, next to the records *)
(* of another shop                                                            *)

MaxRecent == 12
MaxLogs == 52

\* the timestamps of the n records of a shop in the order of their table; in
\* a tied store the tenth and the eleventh newest share theirs
RecordTimes(n, newestFirst, tied) ==
  [i \in 1..n |->
     LET k == IF newestFirst THEN n + 1 - i ELSE i
     IN  IF tied /\ k = n - 9 /\ k > 1 THEN k - 1 ELSE k]

\* one record of shop B, newer than all, then the records of shop A
InitRecent ==
  /\ shopTable = <<Shop("A", 0, FALSE, NULL), Shop("B", 0, FALSE, NULL)>>
  /\ \E g, b \in 0..MaxRecent, l \in {0} \cup (MaxLogs - 3)..MaxLogs,
        newestFirst, tied \in BOOLEAN :
       LET gTimes == <<MaxLogs + 1>> \o RecordTimes(g, newestFirst, tied)
           bTimes == <<MaxLogs + 1>> \o RecordTimes(b, newestFirst, tied)
           lTimes == <<MaxLogs + 1>> \o RecordTimes(l, newestFirst, FALSE)
           owner(i) == IF i = 1 THEN "B" ELSE "A"
       IN  /\ generationTable =
                [i \in DOMAIN gTimes |-> [shopId |-> owner(i), createdAt |-> gTimes[i]]]
           /\ billingTable =
                [i \in DOMAIN bTimes |->
                   [shopId |-> owner(i), price |-> 100 * bTimes[i],
                    timestamp |-> bTimes[i]]]
           /\ logTable =
                [i \in DOMAIN lTimes |-> [shopId |-> owner(i), createdAt |-> lTimes[i]]]
  /\ now = MaxLogs + 2
  /\ tz = UTC
  /\ request = Request("shop", NULL, NULL, NULL, NULL, "A")
  /\ Arrived
  /\ Alone

NextRecent == ShopDetailLoader \/ Render

SpecRecent == InitRecent /\ [][NextRecent]_vars

-----------------------------------------------------------------------------
(* Claims *)

\* the net amount of a sequence of billing records: sum of price * (1 - 0.029)
NetSum(logs) == SumSeq([i \in DOMAIN logs |-> logs[i].price * (Scale - FeeRate)])

Returned(route) == response.route = route /\ response.status = 200

UtcDayOf(t) == CHOOSE d \in -2..366 : d * DayLen <= t /\ t < (d + 1) * DayLen

\* the generations the date condition of the request admits
Admitted ==
  {i \in DOMAIN generationTable :
     Admits(GenerationsDateCondition(request, tz, now), generationTable[i].createdAt)}

BucketDates == {response.chartData[i].date : i \in DOMAIN response.chartData}

\* C2: the counts of the buckets add up to the number of events bucketed.
C2_CountsSumToInput ==
  Returned("generations") =>
    SumSeq([i \in DOMAIN response.chartData |-> response.chartData[i].count])
      = Cardinality(Admitted)

\* three events were bucketed into two buckets
C2_Witness ==
  /\ Returned("generations")
  /\ Cardinality(Admitted) = 3
  /\ Len(response.chartData) = 2

\* C3: one bucket per distinct calendar day of the input: the bucket dates are
\* the days of the events, no date appears twice, no bucket has count 0.
C3_OneBucketPerDay ==
  Returned("generations") =>
    /\ BucketDates = {UtcDayOf(generationTable[i].createdAt) : i \in Admitted}
    /\ \A i, j \in DOMAIN response.chartData :
         response.chartData[i].date = response.chartData[j].date => i = j
    /\ \A i \in DOMAIN response.chartData : response.chartData[i].count > 0

\* two events of one day and one of another were bucketed
C3_Witness ==
  /\ Returned("generations")
  /\ \E i, j, k \in Admitted :
       /\ i # j
       /\ UtcDayOf(generationTable[i].createdAt) = UtcDayOf(generationTable[j].createdAt)
       /\ UtcDayOf(generationTable[k].createdAt) # UtcDayOf(generationTable[i].createdAt)

\* C4: the buckets are strictly ascending by date, whatever the order in which
\* the events are stored.
C4_BucketsAscending ==
  Returned("generations") =>
    \A i, j \in DOMAIN response.chartData :
       i < j => response.chartData[i].date < response.chartData[j].date

\* events stored newest first were bucketed into at least two buckets
C4_Witness ==
  /\ Returned("generations")
  /\ Len(response.chartData) >= 2
  /\ \E i, j \in Admitted :
       /\ i < j
       /\ UtcDayOf(generationTable[i].createdAt) > UtcDayOf(generationTable[j].createdAt)

\* C5: two events are counted in the same bucket exactly when they fall on the
\* same UTC calendar day: each bucket counts the events of its UTC day and
\* every event has the bucket of its UTC day, in every server time zone.
C5_BucketsAreUtcDays ==
  Returned("generations") =>
    /\ \A i \in DOMAIN response.chartData :
         response.chartData[i].count =
           Cardinality({g \in Admitted :
                          UtcDayOf(generationTable[g].createdAt) = response.chartData[i].date})
    /\ \A g \in Admitted : UtcDayOf(generationTable[g].createdAt) \in BucketDates

\* on a server west of UTC, two events of one UTC day that fall on different
\* local days share a bucket, and two events of one local day that fall on
\* different UTC days do not
C5_Witness ==
  /\ Returned("generations")
  /\ tz = NewYork
  /\ \E i, j \in Admitted :
       /\ UtcDayOf(generationTable[i].createdAt) = UtcDayOf(generationTable[j].createdAt)
       /\ LocalDay(tz, generationTable[i].createdAt) # LocalDay(tz, generationTable[j].createdAt)
  /\ \E i, j \in Admitted :
       /\ UtcDayOf(generationTable[i].createdAt) # UtcDayOf(generationTable[j].createdAt)
       /\ LocalDay(tz, generationTable[i].createdAt) = LocalDay(tz, generationTable[j].createdAt)
  /\ Len(response.chartData) = 2

\* the queries of the request on a table
DateQueries(table) == {i \in DOMAIN queries : queries[i].table = table}

Loaded(route) == pc # "request" /\ request.route = route

\* C6 (as claimed): with dateFilter=custom and start and end given as calendar
\* dates, the generations loader admits exactly the events whose calendar date
\* d satisfies start <= d <= end, the end date included.
C6_CustomRangeInclusive ==
  (/\ Loaded("generations")
   /\ request.dateFilter = "custom"
   /\ request.start \in DateStrings
   /\ request.end \in DateStrings) =>
    /\ response.status = 200
    /\ response.totalGenerations =
         Cardinality({i \in DOMAIN generationTable :
                        /\ DayNumber(request.start) <= UtcDayOf(generationTable[i].createdAt)
                        /\ UtcDayOf(generationTable[i].createdAt) <= DayNumber(request.end)})

\* C7: with dateFilter=today a record timestamped at the request's current
\* time satisfies the date predicate of the request, in both loaders.
C7_TodayAdmitsNow ==
  /\ (Loaded("generations") /\ request.dateFilter = "today") =>
       /\ response.status = 200
       /\ \A q \in DateQueries("generation") : Admits(queries[q].createdAt, now)
       /\ response.totalGenerations >=
            Cardinality({i \in DOMAIN generationTable : generationTable[i].createdAt = now})
       /\ \A i \in DOMAIN generationTable :
            generationTable[i].createdAt = now =>
              \E b \in DOMAIN response.chartData :
                 response.chartData[b].date = UtcDayOf(now)
  /\ (Loaded("index") /\ request.dateFilter = "today") =>
       /\ response.status = 200
       /\ \A q \in DateQueries("shop") : Admits(queries[q].createdAt, now)
       /\ \A i \in DOMAIN shopTable :
            shopTable[i].createdAt = now =>
              \E k \in DOMAIN response.shops : response.shops[k].id = shopTable[i].id

\* a record created at the request time was returned under dateFilter=today
\* by a server whose local day began on the previous UTC day
C7_Witness ==
  /\ Loaded("generations")
  /\ request.dateFilter = "today"
  /\ \E i \in DOMAIN generationTable : generationTable[i].createdAt = now
  /\ response.totalGenerations = 1
  /\ Today(tz, now) < UtcDayOf(now) * DayLen

\* C8 (as claimed): with dateFilter=7days a record timestamped 8 * 24 hours or
\* more before the request's current time does not satisfy the date predicate
\* of the request, in both loaders.
C8_SevenDaysExcludesEightDaysAgo ==
  /\ (Loaded("generations") /\ request.dateFilter = "7days") =>
       /\ \A q \in DateQueries("generation") :
            \A i \in DOMAIN generationTable :
               generationTable[i].createdAt <= now - 8 * DayLen =>
                 ~Admits(queries[q].createdAt, generationTable[i].createdAt)
       /\ response.status = 200 =>
            response.totalGenerations <=
              Cardinality({i \in DOMAIN generationTable :
                             generationTable[i].createdAt > now - 8 * DayLen})
  /\ (Loaded("index") /\ request.dateFilter = "7days") =>
       \A i \in DOMAIN shopTable :
          shopTable[i].createdAt <= now - 8 * DayLen =>
            ~\E k \in DOMAIN response.shops : response.shops[k].id = shopTable[i].id

\* C9: with dateFilter=custom and start or end missing (absent or empty) the
\* generations loader returns without an error, every query it issues carries
\* no date constraint, as with dateFilter=all, and every record is counted.
C9_IncompleteCustomIsUnfiltered ==
  (/\ Loaded("generations")
   /\ request.dateFilter = "custom"
   /\ (~Truthy(request.start) \/ ~Truthy(request.end))) =>
    /\ response.status = 200
    /\ \A q \in DateQueries("generation") : queries[q].createdAt = NoCondition
    /\ \A q \in DateQueries("generation") :
         queries[q].createdAt =
           GenerationsDateCondition([request EXCEPT !.dateFilter = "all"], tz, now)
    /\ response.totalGenerations = Len(generationTable)

\* a custom request with only a start, later than a stored record, counted
\* that record
C9_Witness ==
  /\ Loaded("generations")
  /\ request.dateFilter = "custom"
  /\ request.start = "2024-01-15"
  /\ request.end \in {NULL, ""}
  /\ \E i \in DOMAIN generationTable : generationTable[i].createdAt < 14 * DayLen
  /\ response.totalGenerations = Len(generationTable)
  /\ Len(queries) = 5

\* the filter tokens the loaders recognise
Tokens == {"all", "today", "7days", "30days", "custom"}

\* C10 (as claimed): a dateFilter value that is no recognised token, and
\* dateFilter=custom with a start or end value that is no parseable date, make
\* the loader return without an error after querying the store with no date
\* constraint.
C10_MalformedFilterIsUnfiltered ==
  \A route \in {"generations", "index"} :
     (/\ Loaded(route)
      /\ \/ (Truthy(request.dateFilter) /\ request.dateFilter \notin Tokens)
         \/ /\ request.dateFilter = "custom"
            /\ \/ (Truthy(request.start) /\ request.start \notin DateStrings)
               \/ (Truthy(request.end) /\ request.end \notin DateStrings)) =>
       /\ response.status = 200
       /\ \A q \in DOMAIN queries : queries[q].createdAt = NoCondition


\* C11: with dateFilter=all the resolved date predicate is empty, and every
\* record, whatever its timestamp (before or after the request time), is
\* admitted, in both loaders.
C11_AllIsUnfiltered ==
  /\ (Loaded("generations") /\ request.dateFilter = "all") =>
       /\ response.status = 200
       /\ \A q \in DateQueries("generation") : queries[q].createdAt = NoCondition
       /\ \A i \in DOMAIN generationTable :
            \A q \in DateQueries("generation") :
               Admits(queries[q].createdAt, generationTable[i].createdAt)
       /\ response.totalGenerations = Len(generationTable)
       /\ SumSeq([b \in DOMAIN response.chartData |-> response.chartData[b].count]) =
            Len(generationTable)
  /\ (Loaded("index") /\ request.dateFilter = "all") =>
       /\ response.status = 200
       /\ \A q \in DateQueries("shop") : queries[q].createdAt = NoCondition
       /\ \A i \in DOMAIN shopTable :
            \E k \in DOMAIN response.shops : response.shops[k].id = shopTable[i].id
       /\ response.stats.totalShops = Len(shopTable)

\* the dashboard returned a shop created after the request time under
\* dateFilter=all
C11_Witness ==
  /\ Loaded("index")
  /\ request.dateFilter = "all"
  /\ \E k \in DOMAIN response.shops : response.shops[k].createdAt > now
  /\ response.stats.totalShops = 1


\* the number of admitted generations of each shop that has any
AdmittedCount ==
  [s \in {generationTable[i].shopId : i \in Admitted} |->
     Cardinality({i \in Admitted : generationTable[i].shopId = s})]

Min(a, b) == IF a < b THEN a ELSE b

\* C12: topShops lists at most 10 shops (all of them when there are fewer),
\* each once and with its exact count of admitted events, in non-increasing
\* count order, and no shop left out has a count greater than a shop listed;
\* the events (A), (A), (B) give A:2 then B:1.
C12_TopShopsRanked ==
  Returned("generations") =>
    LET top == response.topShops
        count == AdmittedCount
        shops == DOMAIN count
        listed == {top[i].shopId : i \in DOMAIN top}
    IN  /\ Len(top) <= 10
        /\ Len(top) = Min(10, Cardinality(shops))
        /\ \A i, j \in DOMAIN top : i # j => top[i].shopId # top[j].shopId
        /\ \A i \in DOMAIN top :
             /\ top[i].shopId \in shops
             /\ top[i].count = count[top[i].shopId]
        /\ \A i, j \in DOMAIN top : i < j => top[i].count >= top[j].count
        /\ \A s \in shops \ listed :
             \A i \in DOMAIN top : count[s] <= top[i].count
        /\ (\E a, b \in shops :
              shops = {a, b} /\ count[a] = 2 /\ count[b] = 1) =>
             (top[1].count = 2 /\ top[2].count = 1 /\ Len(top) = 2)

\* eleven shops have admitted generations, ten are listed, and the shop left
\* out has as many as the last one listed
C12_Witness ==
  /\ Returned("generations")
  /\ Cardinality(DOMAIN AdmittedCount) = 11
  /\ Len(response.topShops) = 10
  /\ response.topShops[1].count > response.topShops[10].count
  /\ \E s \in DOMAIN AdmittedCount :
       /\ \A i \in 1..10 : response.topShops[i].shopId # s
       /\ AdmittedCount[s] = response.topShops[10].count


Max(a, b) == IF a > b THEN a ELSE b

\* the page number p >= 1 a request asks for
RequestedPage ==
  CASE request.page = "1" -> 1
    [] request.page = "2" -> 2
    [] request.page = "3" -> 3

\* C13: with page size 20 a request for page p >= 1 over N shops returns
\* exactly min(20, max(0, N - 20 * (p - 1))) records; page 2 over 25 shops
\* returns 5.
C13_PageLength ==
  (Loaded("shops") /\ request.page \in {"1", "2", "3"}) =>
    /\ response.status = 200
    /\ Len(response.shops) =
         Min(20, Max(0, Len(shopTable) - 20 * (RequestedPage - 1)))
    /\ (Len(shopTable) = 25 /\ RequestedPage = 2) => Len(response.shops) = 5

\* page 2 of 25 shops was returned with the 5 oldest shops
C13_Witness ==
  /\ Returned("shops")
  /\ request.page = "2"
  /\ Len(shopTable) = 25
  /\ Len(response.shops) = 5
  /\ \A i \in 1..5 : response.shops[i].createdAt <= 5


\* C14: the shop-detail loader answers a request without a shopId with a
\* 400 (bad request) response, before it issues any store query.
C14_MissingShopIdIs400 ==
  (Loaded("shop") /\ request.shopId \in {NULL, ""}) =>
    /\ response.status = 400
    /\ queries = <<>>
    /\ pc # "rendered"

\* a request without a shopId was answered over a store that has shops
C14_Witness ==
  /\ Loaded("shop")
  /\ request.shopId = NULL
  /\ response.status = 400
  /\ Len(shopTable) = 2

\* C15: the shop-detail loader answers a request whose shopId matches no shop
\* with a 404 (not found) response and never returns a view-model for it.
C15_UnknownShopIdIs404 ==
  (/\ Loaded("shop")
   /\ request.shopId \notin {NULL, ""}
   /\ \A i \in DOMAIN shopTable : shopTable[i].id # request.shopId) =>
    /\ response.status = 404
    /\ DOMAIN response = {"route", "status"}
    /\ queries = <<Query("shop", "findUnique", NoCondition, [id |-> request.shopId])>>
    /\ pc # "rendered"
    /\ view = NoView

\* the id of no shop was asked for over a store whose shops have generations
C15_Witness ==
  /\ Loaded("shop")
  /\ response.status = 404
  /\ Len(shopTable) = 2
  /\ request.shopId \notin {shopTable[i].id : i \in DOMAIN shopTable}
  /\ Len(generationTable) > 0


\* the number of store queries in the code of a loader
QueryCount(route) ==
  CASE route = "generations" -> 5
    [] route = "shops" -> 2
    [] OTHER -> 1

\* one of the queries the request issued was failed by the store
QueryFailed == failAt \in 1..Len(queries)

\* the response to the request is made of the results of its queries
BuiltFromResults ==
  CASE request.route = "generations" ->
         /\ response.totalGenerations = Cardinality(Admitted)
         /\ response.uniqueShops = Cardinality(DOMAIN AdmittedCount)
         /\ SumSeq([b \in DOMAIN response.chartData |-> response.chartData[b].count]) =
              Cardinality(Admitted)
         /\ \A i \in DOMAIN response.topShops :
              response.topShops[i].count = AdmittedCount[response.topShops[i].shopId]
         /\ DOMAIN response.shopMap =
              {response.topShops[i].shopId : i \in DOMAIN response.topShops}
                \cap {shopTable[i].id : i \in DOMAIN shopTable}
    [] request.route = "index" ->
         /\ Len(response.shops) = Len(shopTable)
         /\ response.stats.totalShops = Len(shopTable)
         /\ response.stats.totalRevenue = NetSum(billingTable)
    [] request.route = "shops" ->
         /\ response.totalShops = Len(shopTable)
         /\ Len(response.shops) <= Len(shopTable)
    [] request.route = "shop" ->
         /\ response.shop.id = request.shopId
         /\ response.totalRevenue = NetSum(OfShop(billingTable, request.shopId))

\* C16: every request ends in exactly one of two outcomes, a response built
\* from the results of all of its store queries or a failure; when a store
\* query fails, no response with partially computed aggregates is returned.
C16_CompleteOrFailed ==
  pc # "request" =>
    /\ response.route = request.route
    /\ \/ /\ response.status = 200
          /\ Len(queries) = QueryCount(request.route)
          /\ ~QueryFailed
          /\ BuiltFromResults
       \/ /\ response.status \in {400, 404, 500}
          /\ DOMAIN response = {"route", "status"}
          /\ pc # "rendered"
          /\ view = NoView
    /\ QueryFailed => response.status = 500

\* the store failed the fourth query of a generations request (the ranking)
\* after three queries had been answered, and the request failed
C16_Witness ==
  /\ Loaded("generations")
  /\ failAt = 4
  /\ Len(queries) = 4
  /\ response = Failure("generations")
  /\ Len(generationTable) > 0

\* C17: there is no retry and no fallback after a store failure: a request
\* issues each of its store queries at most once, the generations loader
\* issues no later query after an earlier one has failed, and nothing is
\* issued once the request has been answered.
C17_NoRetry ==
  /\ [](/\ \A i, j \in DOMAIN queries : i # j => queries[i] # queries[j]
        /\ Len(queries) <= QueryCount(request.route)
        /\ (Loaded("generations") /\ QueryFailed) => Len(queries) = failAt
        /\ (Loaded("shop") /\ QueryFailed) => response = Failure("shop"))
  /\ [][(pc # "request" /\ pc' # "request") => queries' = queries]_vars

\* the store failed the second query of a generations request and the
\* request ended with two queries issued
C17_Witness ==
  /\ Loaded("generations")
  /\ failAt = 2
  /\ Len(queries) = 2
  /\ queries[2].args = [distinct |-> "shopId"]
  /\ response.status = 500

\* C18: the system only reads: no step of any request to any of the four
\* loaders, successful or failed, changes the contents of the store.
C18_StoreUnchanged == [][store' = store]_vars

\* a second request has failed on a store that has rows, after a first one
\* was answered
C18_Witness ==
  /\ served = 2
  /\ pc = "loaded"
  /\ response.status = 500
  /\ failAt > 0
  /\ Len(shopTable) = 2
  /\ Len(generationTable) > 0


\* C19: there is no shared mutable state across requests: in any
\* interleaving of concurrent requests over an unchanging store, the response
\* of each request (and the queries it issued) is one it gives when it runs
\* alone, determined by its parameters, the store contents and its request
\* time.
C19_AsIfAlone ==
  \A r \in DOMAIN calls :
     calls[r].pc \in {"done", "failed"} =>
       \E alone \in GenerationsOutcomes(calls[r].request, tz, calls[r].now, 0) :
          /\ calls[r].response = alone.response
          /\ calls[r].queries = alone.queries

\* two requests with different date conditions were interleaved: the one
\* entered second was answered first, with a different count
C19_Witness ==
  /\ calls[1].pc = "done"
  /\ calls[1].entered = 2
  /\ calls[2].pc = "groupBy"
  /\ calls[1].dateCondition # calls[2].dateCondition
  /\ calls[1].response.totalGenerations # calls[2].totalGenerations


\* an exact amount in 1/Scale hundredths, rounded once to hundredths (half up)
RoundedOnce(amount) == (amount + Scale \div 2) \div Scale

\* the billing records of the shops of the response
BilledToReturned ==
  SelectSeq(billingTable,
            LAMBDA log : \E i \in DOMAIN response.shops :
                            response.shops[i].id = log.shopId)

\* the loader returns what its reducers accumulate, and the figure displayed
\* is that total put through toFixed(2)
C20_RoundedAtPresentation ==
  (pc = "rendered" /\ response.route = "index") =>
    /\ response.stats.totalRevenue = DoubleTotalRevenue(response.shops, Zero)
    /\ view.totalRevenue = ToFixed2(response.stats.totalRevenue)

\* C20 (as claimed): revenue is rounded only at presentation time, so the
\* figure displayed is the total rounded once to 2 decimals, and the total
\* carries no drift from the exact decimal sum: the figure is the exact sum of
\* the net amounts rounded once.
C20_RoundedOnceWithoutDrift ==
  /\ C20_RoundedAtPresentation
  /\ (pc = "rendered" /\ response.route = "index") =>
       view.totalRevenue = RoundedOnce(NetSum(BilledToReturned))

-----------------------------------------------------------------------------
\* the counts of a list of {.., count} rows added up
RECURSIVE SumCounts(_)
SumCounts(rows) ==
  IF rows = <<>> THEN 0 ELSE rows[1].count + SumCounts(Tail(rows))

\* C21: in every response of the generations loader, totalGenerations equals
\* the sum of the counts of chartData, the sum of the counts of topShops is at
\* most totalGenerations, and uniqueShops is at most totalGenerations, for
\* every interleaving in which another process inserts or deletes Generation
\* records between the loader's successive queries.
C21_ConsistentUnderWrites ==
  \A r \in DOMAIN calls :
     calls[r].pc = "done" =>
       LET res == calls[r].response
       IN  /\ res.totalGenerations = SumCounts(res.chartData)
           /\ SumCounts(res.topShops) <= res.totalGenerations
           /\ res.uniqueShops <= res.totalGenerations

-----------------------------------------------------------------------------
\* C22: the two date-range resolvers (dashboard index loader and generations
\* loader) are equivalent: for every query string (dateFilter absent, all,
\* today, 7days, 30days, custom with or without start/end, or any other value)
\* and the same request time, the predicate over createdAt that one loader
\* puts in its queries is the one the other loader's resolver gives.
C22_ResolversEquivalent ==
  /\ Loaded("index") =>
       \A q \in DateQueries("shop") :
          queries[q].createdAt = GenerationsDateCondition(request, tz, now)
  /\ Loaded("generations") =>
       \A q \in DateQueries("generation") :
          queries[q].createdAt = IndexDateCondition(request, tz, now)

-----------------------------------------------------------------------------
\* the page shows the data of its location: every navigation has finished and
\* no effect is due
Settled == Mounted /\ pc = "mounted" /\ ~view.effect

\* C23: after any sequence of filter-button clicks and calendar selections on
\* the generations page, once effects have run, whenever the active filter is
\* custom and both the displayed start (pendingStart) and end (pendingEnd) are
\* set, the query string carries start and end equal to those displayed
\* values, and the data shown were queried with that range.
C23_ShownRangeIsQueried ==
  (/\ Settled
   /\ view.dateFilter = "custom"
   /\ Truthy(view.pendingStart)
   /\ Truthy(view.pendingEnd)) =>
    /\ view.searchParams.start = view.pendingStart
    /\ view.searchParams.end = view.pendingEnd
    /\ \A q \in DateQueries("generation") :
         queries[q].createdAt = [gte |-> NewDate(view.pendingStart),
                                 lte |-> NewDate(view.pendingEnd)]

-----------------------------------------------------------------------------
\* the condition the loader of the request's route resolves for the filter f
\* at the time and in the zone of the request
TokenCondition(f) ==
  IF request.route = "index"
  THEN IndexDateCondition([request EXCEPT !.dateFilter = f], tz, now)
  ELSE GenerationsDateCondition([request EXCEPT !.dateFilter = f], tz, now)

RangeTokens == {"today", "7days", "30days", "all"}

\* timestamps around the request time and around both sides of every range's
\* start
RangeProbes ==
  {now - age : age \in Ages}
    \cup {now - 7 * DayLen + d : d \in -1..1}
    \cup {TokenCondition(f).gte.time + d : f \in RangeTokens \ {"all"}, d \in -1..1}

\* C24: for the same request time the token ranges are nested: every
\* timestamp admitted by today is admitted by 7days, every one admitted by
\* 7days is admitted by 30days, and every one admitted by 30days is admitted
\* by all; none of the token ranges has an upper bound, and 7days admits every
\* event of the last 7 * 24 hours. The condition the loader queried with is
\* the one compared.
C24_TokenRangesNested ==
  (/\ pc = "loaded"
   /\ request.route \in {"index", "generations"}
   /\ request.dateFilter \in RangeTokens) =>
    LET today == TokenCondition("today")
        sevenDays == TokenCondition("7days")
        thirtyDays == TokenCondition("30days")
        all == TokenCondition("all")
        probes == RangeProbes
    IN  /\ response.status = 200
        /\ \A q \in DOMAIN queries :
             queries[q].table = (IF request.route = "index" THEN "shop" ELSE "generation")
               => queries[q].createdAt = TokenCondition(request.dateFilter)
        /\ \A t \in probes :
             /\ Admits(today, t) => Admits(sevenDays, t)
             /\ Admits(sevenDays, t) => Admits(thirtyDays, t)
             /\ Admits(thirtyDays, t) => Admits(all, t)
             /\ t >= now - 7 * DayLen => Admits(sevenDays, t)
        /\ \A c \in {today, sevenDays, thirtyDays, all} : c.lte = Unset

\* under 7days a record of exactly 7 * 24 hours ago was returned on a day when
\* the clocks had changed since the start of the range, and the three ranges
\* start at different instants
C24_Witness ==
  /\ pc = "loaded"
  /\ request.route = "generations"
  /\ request.dateFilter = "7days"
  /\ \E i \in DOMAIN generationTable : generationTable[i].createdAt = now - 7 * DayLen
  /\ response.totalGenerations = 1
  /\ Offset(tz, now) # Offset(tz, SevenDaysAgo(tz, now))
  /\ TokenCondition("today").gte.time > TokenCondition("7days").gte.time
  /\ TokenCondition("7days").gte.time > TokenCondition("30days").gte.time

-----------------------------------------------------------------------------
\* a query string has neither start nor end
WithoutRange(params) == params.start = NULL /\ params.end = NULL

\* C29: on the generations page, choosing any filter other than custom
\* removes start and end from the query string and closes the calendar,
\* choosing custom leaves start and end as they were, and in both cases every
\* other query parameter is left unchanged; so start and end are present only
\* while dateFilter is custom, in the location shown and in the one navigated
\* to, after any sequence of UI actions.
C29_FilterChoiceFrame ==
  /\ [](/\ WithoutRange(request) \/ request.dateFilter = "custom"
        /\ Mounted => \/ WithoutRange(view.searchParams)
                      \/ view.searchParams.dateFilter = "custom")
  /\ [][\A filter \in FilterOptions :
          HandleDateFilter(filter) =>
            /\ request'.dateFilter = filter
            /\ filter # "custom" => WithoutRange(request')
            /\ filter = "custom" => /\ request'.start = view.searchParams.start
                                    /\ request'.end = view.searchParams.end
            /\ request'.page = view.searchParams.page
            /\ request'.shopId = view.searchParams.shopId
            /\ request'.route = view.searchParams.route
            /\ view'.calendarOpen = NULL
            /\ view'.pendingStart = view.pendingStart
            /\ view'.pendingEnd = view.pendingEnd]_vars

\* another filter was chosen on a page that showed a custom range with another
\* parameter in its query string: the location navigated to has lost start and
\* end and kept the parameter
C29_Witness ==
  /\ Mounted
  /\ pc = "request"
  /\ view.searchParams.dateFilter = "custom"
  /\ ~WithoutRange(view.searchParams)
  /\ view.searchParams.page = "2"
  /\ request.dateFilter = "today"
  /\ WithoutRange(request)
  /\ request.page = "2"

-----------------------------------------------------------------------------
\* the shops of the store, newest first (the model's stores of the shops page
\* hold no two shops of one createdAt)
RECURSIVE NewestFirst(_)
NewestFirst(S) ==
  IF S = {} THEN <<>>
  ELSE LET i == CHOOSE x \in S : \A y \in S : shopTable[x].createdAt >= shopTable[y].createdAt
       IN  <<shopTable[i].id>> \o NewestFirst(S \ {i})

\* C25: on the shops page over a store that does not change, totalPages
\* equals ceil(totalShops / 20) (0 for an empty store), page p of 1..totalPages
\* is the p-th run of 20 of the shops in descending createdAt order (so the
\* pages together return every shop exactly once), and the skip value passed
\* to the store is (page - 1) * 20 and is non-negative for every value of the
\* page parameter.
C25_PagesPartitionStore ==
  Loaded("shops") =>
    LET skip == queries[1].args.skip
        n == Len(shopTable)
    IN  /\ ~skip.nan
        /\ skip.n >= 0
        /\ skip.n % PAGE_SIZE = 0
        /\ response.status = 200
        /\ response.page = skip.n \div PAGE_SIZE + 1
        /\ response.totalPages * PAGE_SIZE >= n
        /\ response.totalPages * PAGE_SIZE < n + PAGE_SIZE
        /\ LET sorted == NewestFirst(DOMAIN shopTable)
           IN  /\ Len(response.shops) = Min(PAGE_SIZE, Max(0, n - skip.n))
               /\ \A i \in DOMAIN response.shops :
                    response.shops[i].id = sorted[skip.n + i]

-----------------------------------------------------------------------------
\* the ids of the shops whose own createdAt satisfies the request's date
\* predicate
SelectedShops ==
  {shopTable[i].id :
     i \in {j \in DOMAIN shopTable :
              Admits(IndexDateCondition(request, tz, now), shopTable[j].createdAt)}}

\* C26: on the dashboard index the date predicate selects shops by the shop's
\* own createdAt only: totalGenerations and totalRevenue count every
\* Generation and BillingLog of each selected shop whatever that record's own
\* timestamp, and count none of a shop that is not selected; activeShops and
\* shopsWithPlans never exceed totalShops.
C26_SelectionByShopCreatedAt ==
  Returned("index") =>
    LET selected == SelectedShops
        stats == response.stats
    IN  /\ {response.shops[i].id : i \in DOMAIN response.shops} = selected
        /\ stats.totalShops = Cardinality(selected)
        /\ stats.totalGenerations =
             Cardinality({i \in DOMAIN generationTable :
                            generationTable[i].shopId \in selected})
        /\ stats.totalRevenue =
             NetSum(SelectSeq(billingTable, LAMBDA log : log.shopId \in selected))
        /\ stats.activeShops <= stats.totalShops
        /\ stats.shopsWithPlans <= stats.totalShops

\* under 7days one of two shops was selected; its generation and its billing
\* log, both older than the range, were counted, and the newer generation of
\* the shop not selected was not
C26_Witness ==
  /\ Returned("index")
  /\ request.dateFilter = "7days"
  /\ Len(shopTable) = 2
  /\ SelectedShops = {"A"}
  /\ generationTable = <<[shopId |-> "A", createdAt |-> 24],
                         [shopId |-> "B", createdAt |-> 720]>>
  /\ billingTable = <<[shopId |-> "A", price |-> 999, timestamp |-> 24]>>
  /\ response.stats.totalGenerations = 1
  /\ response.stats.totalRevenue = 999 * (Scale - FeeRate)
  /\ response.stats.activeShops = 0
  /\ response.stats.shopsWithPlans = 0

-----------------------------------------------------------------------------
\* the shops that have a generation the date condition of the request admits
AdmittedShops == {generationTable[i].shopId : i \in Admitted}

\* C27: in the generations loader avgPerShop equals totalGenerations divided
\* by the number of distinct shops having an admitted generation whenever
\* that number is positive, and equals 0 when no generation is admitted; the
\* divisor is never zero, whatever the store holds. (avgPerShop is kept as the
\* pair of the dividend and the divisor of the loader's division.)
C27_AvgPerShop ==
  Returned("generations") =>
    LET admitted == Admitted
        shops == AdmittedShops
        avg == response.avgPerShop
    IN  /\ avg.den # 0
        /\ response.totalGenerations = Cardinality(admitted)
        /\ response.uniqueShops = Cardinality(shops)
        /\ Cardinality(shops) > 0 =>
             /\ avg.num = response.totalGenerations
             /\ avg.den = Cardinality(shops)
        /\ admitted = {} => avg.num = 0 /\ avg.den = 1

\* three generations of two shops were admitted (avgPerShop = 3 / 2)
C27_Witness ==
  /\ Returned("generations")
  /\ Cardinality(Admitted) = 3
  /\ Cardinality(AdmittedShops) = 2
  /\ response.avgPerShop = [num |-> 3, den |-> 2]

-----------------------------------------------------------------------------
\* s holds the rows of t, each as often as t does
SameRows(s, t) ==
  /\ Len(s) = Len(t)
  /\ \A i \in DOMAIN t :
       Cardinality({j \in DOMAIN s : s[j] = t[i]})
         = Cardinality({j \in DOMAIN t : t[j] = t[i]})

\* list is the first min(n, Len(rows)) of an arrangement of rows, and no row
\* left out of it is newer than one in it
NewestOf(list, rows, n, keys(_)) ==
  /\ Len(list) = Min(n, Len(rows))
  /\ \E rest \in {Drop(sorted, Len(list)) :
                    sorted \in {Arrange(rows, order) :
                                  order \in DescOrders(keys(rows), DOMAIN rows)}} :
       /\ SameRows(list \o rest, rows)
       /\ \A i \in DOMAIN list, k \in DOMAIN rest :
            keys(rest)[k] <= keys(list)[i]
  /\ \A i, j \in DOMAIN list : i < j => keys(list)[i] >= keys(list)[j]

\* C28: in the shop-detail loader recentGenerations and recentBillingLogs are
\* the prefixes of length min(10, n) of the shop's generations and billing
\* logs sorted by timestamp descending (no record outside the list is newer
\* than one inside it), at most 50 Log records are loaded (the newest), and
\* totalRevenue is computed over all of the shop's billing logs, not only the
\* 10 listed.
C28_RecentLists ==
  Returned("shop") =>
    LET generations == OfShop(generationTable, request.shopId)
        billingLogs == OfShop(billingTable, request.shopId)
        logs == OfShop(logTable, request.shopId)
    IN  /\ NewestOf(response.recentGenerations, generations, 10, CreatedAtKeys)
        /\ NewestOf(response.recentBillingLogs, billingLogs, 10, TimestampKeys)
        /\ Len(response.shop.Log) <= 50
        /\ NewestOf(response.shop.Log, logs, 50, CreatedAtKeys)
        /\ response.totalRevenue = NetSum(billingLogs)

\* a shop with twelve generations, twelve billing logs and fifty-two logs was
\* shown: ten, ten and fifty of them were returned, and the revenue is more
\* than that of the billing logs listed
C28_Witness ==
  /\ Returned("shop")
  /\ Len(OfShop(generationTable, "A")) = 12
  /\ Len(OfShop(billingTable, "A")) = 12
  /\ Len(OfShop(logTable, "A")) = 52
  /\ Len(response.recentGenerations) = 10
  /\ Len(response.recentBillingLogs) = 10
  /\ Len(response.shop.Log) = 50
  /\ response.totalRevenue > NetSum(response.recentBillingLogs)
  /\ response.recentGenerations[10].createdAt = 2

====
